---------------------------- MODULE Spec2Model ----------------------------
(***************************************************************************)
(* A model of NEMWeb.py: the listing of the remote archive, the merge of   *)
(* the three file lists, the selection of the twelve month window, the     *)
(* load of an archive and the PKL cache, the assembly of the five minute   *)
(* grid, the repair of missing periods, the interpolation of the rooftop   *)
(* solar data and the tally by category.                                   *)
(*                                                                         *)
(* Each component has its own specification (SpecListing, SpecMerge,       *)
(* SpecWindow, SpecLoad, SpecCache, SpecMain, SpecRepair, SpecSolar,       *)
(* SpecAgg); the variables of the other components stay at their idle      *)
(* values, but for the run of main, whose tally sets cat_list,             *)
(* duid_catidx, unknown_duids, df_categories and df_in_out.  A frame of a  *)
(* whole year is held by the cells and the stretches of rows assigned to   *)
(* it.                                                                     *)
(***************************************************************************)
EXTENDS Integers, Sequences, FiniteSets, TLC

VARIABLES
    \* select_files
    lplist, lzlist, rzlist,   \* the three sorted lists of file paths
    lp, lz, rz,               \* the cursors into them (0-based, as in the code)
    filelist,                 \* the merged list being built
    sel_pc,                   \* "idle", "select" (in the while loop), "done"
    \* calculate_most_recent_full_twelve_months
    day_first, day_last,      \* yyyymmdd of day_list[0] and day_list[-1]
    week_first, week_last,    \* yyyymmdd of week_list[0] and week_list[-1]
    ds_start, ds_end,         \* dispatch_scada.start_date and .end_date
    rt_start, rt_end,         \* rooftop_pv.start_date and .end_date
    warned,                   \* the "not available" message was printed
    win_pc,                   \* "idle", "calc", "done"
    \* repair_missing_periods
    df_raw,                   \* the grid as build_df_five_minute returned it
    df_MW,                    \* the grid, repaired in place
    touched,                  \* the rows of the grid that were assigned to
    row_is_view,              \* pandas: df.iloc[i, :] is a view of the row
    rep_pc,                   \* "idle", "repair", "done"
    \* add_rooftop_solar_data
    rtdf,                     \* rooftop_pv.df_thirty_minute, by region
    nwdf,                     \* the region columns of df_five_minute
    sol_pc,                   \* "idle", "add", "done"
    \* build_cat_and_in_out_dfs
    agg_duids,                \* df_five_minute.axes[1], the sorted channels
    agg_df,                   \* df_five_minute: column by column
    cat_list, duid_catidx,    \* what read_duid_categories_csv returned
    unknown_duids,            \* the channels categorised as "Unknown"
    df_categories,            \* the tally: its columns and its rows
    df_in_out,                \* by channel, <<In, Out, Out/In>>
    agg_pc,                   \* "idle", "tally", "done"
    \* load_nem_data_file
    ld_feed,                  \* the subclass: "DispatchSCADA" or "RooftopPV"
    ld_source,                \* where the bytes of the outer archive come from
    ld_archive,               \* the entries of the outer archive
    ld_load,                  \* the object self.load
    ld_df,                    \* load.nem_MW_df
    ld_pc,                    \* "idle", "load", "done", "aborted"
    \* the runs of the program over one feed: load_nem_data
    mirror_dir,               \* self.mirror_dir: "None", "str" or "Path"
    mirror_keys,              \* the periods of the archives in mirror_dir
    malformed,                \* the periods whose archive raises when parsed
    cache,                    \* the PKL files of data_dir, by period
    tw_start, tw_files,       \* start_yyyymmdd and number_of_files
    twelve_month_list,        \* what build_twelve_month_list returned
    tm_pos,                   \* the tuples of it that the loop has handled
    nem_MW_df_list,           \* the matrices loaded in this run
    prev_df_list,             \* the matrices loaded in the run before
    runs,                     \* the runs started so far
    fetches,                  \* by period, the downloads completed so far
    work,                     \* by period, what this run did for it
    prev_work,                \* by period, what the run before did for it
    events,                   \* what this run did, in the order it did it
    run_pc,                   \* "idle", "start", "select", "load",
                              \* "complete", "aborted"
    \* main: the stages of one run from the window to the saved tally
    ds_axes,                  \* the channel lists of the daily matrices
    ds_power,                 \* the daily matrices hold power that is not 0
    rt_power,                 \* the weekly matrices hold power that is not 0
    ds_twelve, rt_twelve,     \* the twelve_month_list of each feed
    pkl_files,                \* by feed, the periods with a PKL file
    grid,                     \* df_five_minute: its index, columns, cells
    thirty,                   \* rooftop_pv.df_thirty_minute
    pipe_error,               \* the exception that ended the run
    pipe_pc,                  \* "idle", "load", "assemble", "repair",
                              \* "thirty", "solar", "tally", "complete",
                              \* "aborted"
    \* build_file_lists: the listing of the remote archive
    url_list,                 \* what build_url_list returned
    bf_rzlist,                \* the local rzlist of build_file_lists
    valid_len,                \* len(rzlist[0]) of the sorted listing
    bf_pc                     \* "idle", "fetch", "list", "trim", "done",
                              \* "aborted"

vars == <<lplist, lzlist, rzlist, lp, lz, rz, filelist, sel_pc,
          day_first, day_last, week_first, week_last,
          ds_start, ds_end, rt_start, rt_end, warned, win_pc,
          df_raw, df_MW, touched, row_is_view, rep_pc,
          rtdf, nwdf, sol_pc,
          agg_duids, agg_df, cat_list, duid_catidx, unknown_duids,
          df_categories, df_in_out, agg_pc,
          ld_feed, ld_source, ld_archive, ld_load, ld_df, ld_pc,
          mirror_dir, mirror_keys, malformed, cache, tw_start, tw_files,
          twelve_month_list, tm_pos, nem_MW_df_list, prev_df_list,
          runs, fetches, work, prev_work, events, run_pc,
          ds_axes, ds_power, rt_power, ds_twelve, rt_twelve, pkl_files,
          grid, thirty, pipe_error, pipe_pc,
          url_list, bf_rzlist, valid_len, bf_pc>>

listingVars == <<url_list, bf_rzlist, valid_len, bf_pc>>

pipeVars == <<ds_axes, ds_power, rt_power, ds_twelve, rt_twelve, pkl_files,
              grid, thirty, pipe_error, pipe_pc>>

cacheVars == <<mirror_dir, mirror_keys, malformed, cache, tw_start, tw_files,
               twelve_month_list, tm_pos, nem_MW_df_list, prev_df_list,
               runs, fetches, work, prev_work, events, run_pc>>

loadVars == <<ld_feed, ld_source, ld_archive, ld_load, ld_df, ld_pc>>

aggVars == <<agg_duids, agg_df, cat_list, duid_catidx, unknown_duids,
             df_categories, df_in_out, agg_pc>>

repairVars == <<df_raw, df_MW, touched, row_is_view, rep_pc>>

solarVars == <<rtdf, nwdf, sol_pc>>

windowVars == <<day_first, day_last, week_first, week_last,
                ds_start, ds_end, rt_start, rt_end, warned, win_pc>>

mergeVars == <<lplist, lzlist, rzlist, lp, lz, rz, filelist, sel_pc>>

\* What the actions of one component leave alone.
notMerge ==
    <<windowVars, repairVars, solarVars, aggVars,
      loadVars, cacheVars, pipeVars, listingVars>>
notWindow ==
    <<mergeVars, repairVars, solarVars, aggVars,
      loadVars, cacheVars, pipeVars, listingVars>>
notRepair ==
    <<mergeVars, windowVars, solarVars, aggVars,
      loadVars, cacheVars, pipeVars, listingVars>>
notSolar ==
    <<mergeVars, windowVars, repairVars, aggVars,
      loadVars, cacheVars, pipeVars, listingVars>>
notAgg ==
    <<mergeVars, windowVars, repairVars, solarVars,
      loadVars, cacheVars, pipeVars, listingVars>>
notLoad ==
    <<mergeVars, windowVars, repairVars, solarVars,
      aggVars, cacheVars, pipeVars, listingVars>>
notCache ==
    <<mergeVars, windowVars, repairVars, solarVars,
      aggVars, loadVars, pipeVars, listingVars>>
notPipe ==
    <<mergeVars, windowVars, repairVars, solarVars,
      aggVars, loadVars, cacheVars, listingVars>>
notListing ==
    <<mergeVars, windowVars, repairVars, solarVars,
      aggVars, loadVars, cacheVars, pipeVars>>

-----------------------------------------------------------------------------
(* Bounds of the model.                                                    *)

\* select_files: the period keys are MaxKey consecutive days.
MaxKey == 4

\* build_file_lists: the remote listing has at most MaxUrls entries.
MaxUrls == 3

\* The window: the last daily and the last weekly period range over
\* MaxSpan + 1 consecutive days from each base date.
MaxSpan == 20

\* repair_missing_periods: the grid has 1..MaxRows rows.
MaxRows == 5

\* add_rooftop_solar_data: the grid has 1..MaxBlocks blocks of 6 rows.
MaxBlocks == 2

\* build_cat_and_in_out_dfs: the grid has 1..MaxAggRows rows.
MaxAggRows == 2

\* load_nem_data_file: the outer archive has at most MaxInner entries
\* besides those of a complete period.
MaxInner == 2

\* load_nem_data: the program is run at most MaxRuns times over one cache.
MaxRuns == 2

\* main: the last daily file is one of MaxEndDays + 1 consecutive days.
MaxEndDays == 3

-----------------------------------------------------------------------------
(* Dates: datetime, timedelta(days=k), weekday(), strftime("%Y%m%d").      *)

Date(y, m, d) == [year |-> y, month |-> m, day |-> d]

NoDate == Date(0, 0, 0)

IsLeap(y) == (y % 4 = 0 /\ y % 100 # 0) \/ y % 400 = 0

DaysInMonth(y, m) ==
    CASE m \in {4, 6, 9, 11} -> 30
      [] m = 2 -> IF IsLeap(y) THEN 29 ELSE 28
      [] OTHER -> 31

DaysBeforeYear(y) ==
    LET p == y - 1 IN p * 365 + (p \div 4) - (p \div 100) + (p \div 400)

RECURSIVE DaysBeforeMonth(_, _)
DaysBeforeMonth(y, m) ==
    IF m = 1 THEN 0 ELSE DaysBeforeMonth(y, m - 1) + DaysInMonth(y, m - 1)

\* datetime.toordinal(): 1 is Monday 1 January of year 1.
ToOrdinal(d) == DaysBeforeYear(d.year) + DaysBeforeMonth(d.year, d.month) + d.day

\* datetime.weekday(): Monday is 0, Thursday is 3.
Weekday(d) == (ToOrdinal(d) + 6) % 7

NextDay(d) ==
    IF d.day < DaysInMonth(d.year, d.month) THEN Date(d.year, d.month, d.day + 1)
    ELSE IF d.month < 12 THEN Date(d.year, d.month + 1, 1)
    ELSE Date(d.year + 1, 1, 1)

PrevDay(d) ==
    IF d.day > 1 THEN Date(d.year, d.month, d.day - 1)
    ELSE IF d.month > 1 THEN Date(d.year, d.month - 1, DaysInMonth(d.year, d.month - 1))
    ELSE Date(d.year - 1, 12, 31)

RECURSIVE AddDays(_, _)
\* d + timedelta(days=k)
AddDays(d, k) ==
    IF k = 0 THEN d
    ELSE IF k > 0 THEN AddDays(NextDay(d), k - 1)
    ELSE AddDays(PrevDay(d), k + 1)

\* a < b on datetimes
DateLT(a, b) == ToOrdinal(a) < ToOrdinal(b)

\* NEMWeb.dateof(s): the datetime of a yyyymmdd string.
dateof(s) == Date(s \div 10000, (s \div 100) % 100, s % 100)

\* d.strftime("%Y%m%d"), as the number the eight digits spell.
Yyyymmdd(d) == d.year * 10000 + d.month * 100 + d.day

-----------------------------------------------------------------------------
(* select_files: the merge of the PKL, local ZIP and remote ZIP lists.     *)

\* A file path is modelled by the list it is in and by the yyyymmdd slice
\* path[-12:-4] of its name. The slices are strings of eight digits, which
\* compare as the numbers they spell.
Path(tier, k) == [tier |-> tier, ymd |-> k]

\* filepath[-12:-4]
Ymd(path) == path.ymd

\* The string "9" the loop starts each selection from: as a string it is
\* greater than exactly the yyyymmdd slices that start with a digit below 9.
Nine == 90000000

\* The period keys of the model: consecutive days across a year's end.
MergeKeys == {Yyyymmdd(AddDays(Date(2023, 12, 30), i)) : i \in 0..(MaxKey - 1)}

RECURSIVE SortedKeys(_)
\* list.sort() of the names of one directory: ascending, no name twice.
SortedKeys(S) ==
    IF S = {} THEN <<>>
    ELSE LET m == CHOOSE x \in S : \A y \in S : x <= y
         IN  <<m>> \o SortedKeys(S \ {m})

SortedList(tier, S) ==
    LET ks == SortedKeys(S) IN [i \in 1..Len(ks) |-> Path(tier, ks[i])]

\* lpflag, lzflag, rzflag: the cursor is inside its list.
lpflag == lp < Len(lplist)
lzflag == lz < Len(lzlist)
rzflag == rz < Len(rzlist)

\* lp_ymd, lz_ymd, rz_ymd: the key under the cursor; the code reads them
\* only under the flag, and they are Nine here when the flag is down.
lp_ymd == IF lpflag THEN Ymd(lplist[lp + 1]) ELSE Nine
lz_ymd == IF lzflag THEN Ymd(lzlist[lz + 1]) ELSE Nine
rz_ymd == IF rzflag THEN Ymd(rzlist[rz + 1]) ELSE Nine

\* As Pick, but a tie also overrides the earlier choice.
PickTieOverrides(cur, flag, key, name) ==
    IF flag /\ cur.ymd >= key THEN [ymd |-> key, choice |-> name] ELSE cur

\* One step of the cascade "if flag and ymd > x_ymd: ymd = x_ymd; choice = x".
Pick(cur, flag, key, name) ==
    IF flag /\ cur.ymd > key THEN [ymd |-> key, choice |-> name] ELSE cur

\* The selection at the top of the while loop: lp first, then lz, then rz.
Selection ==
    LET c0 == [ymd |-> Nine, choice |-> "None"]
        c1 == Pick(c0, lpflag, lp_ymd, "lp")
        c2 == Pick(c1, lzflag, lz_ymd, "lz")
        c3 == Pick(c2, rzflag, rz_ymd, "rz")
    IN  c3

\* The tuple appended for the choice: (is_zip, path).
Chosen(choice) ==
    CASE choice = "rz" -> <<TRUE, rzlist[rz + 1]>>
      [] choice = "lz" -> <<TRUE, lzlist[lz + 1]>>
      [] choice = "lp" -> <<FALSE, lplist[lp + 1]>>

\* As Advance, but a cursor moves on only when its list is the one chosen.
AdvanceOnlyChosen(cursor, flag, key, sel, name) ==
    IF flag /\ sel.choice = name THEN cursor + 1 ELSE cursor

\* "if flag and x_ymd == ymd: x += 1": every cursor on the selected key moves on.
Advance(cursor, flag, key, sel, name) ==
    IF flag /\ key = sel.ymd THEN cursor + 1 ELSE cursor

IdleMerge ==
    /\ lplist = <<>> /\ lzlist = <<>> /\ rzlist = <<>>
    /\ lp = 0 /\ lz = 0 /\ rz = 0
    /\ filelist = <<>>
    /\ sel_pc = "idle"

\* build_file_lists has run: three sorted lists, the remote one not empty
\* (rzlist[0] is read there).
InitSelect ==
    /\ \E P \in SUBSET MergeKeys, Z \in SUBSET MergeKeys,
          R \in (SUBSET MergeKeys) \ {{}} :
          /\ lplist = SortedList("lp", P)
          /\ lzlist = SortedList("lz", Z)
          /\ rzlist = SortedList("rz", R)
    /\ lp = 0 /\ lz = 0 /\ rz = 0
    /\ filelist = <<>>
    /\ sel_pc = "select"

\* One iteration of the while loop that selects a file.
SelectIter ==
    /\ sel_pc = "select"
    /\ LET sel == Selection IN
        /\ sel.choice # "None"
        /\ filelist' = Append(filelist, Chosen(sel.choice))
        /\ rz' = Advance(rz, rzflag, rz_ymd, sel, "rz")
        /\ lz' = Advance(lz, lzflag, lz_ymd, sel, "lz")
        /\ lp' = Advance(lp, lpflag, lp_ymd, sel, "lp")
    /\ UNCHANGED <<lplist, lzlist, rzlist, sel_pc>>
    /\ UNCHANGED notMerge

\* "if choice is None: break", then "return filelist".
SelectBreak ==
    /\ sel_pc = "select"
    /\ Selection.choice = "None"
    /\ sel_pc' = "done"
    /\ UNCHANGED <<lplist, lzlist, rzlist, lp, lz, rz, filelist>>
    /\ UNCHANGED notMerge

-----------------------------------------------------------------------------
(* calculate_most_recent_full_twelve_months                                *)

\* d.replace(day=1)
ReplaceDay1(d) == Date(d.year, d.month, 1)

\* As EarliestEnd, but the later of the two ends.
LatestEnd(day_filename, week_filename) ==
    LET daily  == AddDays(dateof(day_filename), 1)
        weekly == AddDays(dateof(week_filename), 7)
    IN  IF DateLT(daily, weekly) THEN weekly ELSE daily

\* earliest_end_date: the day after the last daily file or the day after
\* the last weekly file's week, whichever is earlier.
EarliestEnd(day_filename, week_filename) ==
    LET daily  == AddDays(dateof(day_filename), 1)
        weekly == AddDays(dateof(week_filename), 7)
    IN  IF DateLT(weekly, daily) THEN weekly ELSE daily

\* end_daily_day
EndDailyDay == ReplaceDay1(EarliestEnd(day_last, week_last))

\* start_daily_day = datetime(end_daily_day.year - 1, end_daily_day.month, 1)
StartDailyDay(e) == Date(e.year - 1, e.month, 1)

\* As StartWeeklyDay, padding back to the Friday.
StartWeeklyFriday(s) == AddDays(s, 0 - ((Weekday(s) - 4) % 7))

\* start_weekly_day: back to the Thursday on or before start_daily_day.
StartWeeklyDay(s) == AddDays(s, 0 - ((Weekday(s) - 3) % 7))

\* end_weekly_day: on to the Thursday on or after end_daily_day.
EndWeeklyDay(e) == AddDays(e, (3 - Weekday(e)) % 7)

IdleWindow ==
    /\ day_first = 0 /\ day_last = 0 /\ week_first = 0 /\ week_last = 0
    /\ ds_start = NoDate /\ ds_end = NoDate
    /\ rt_start = NoDate /\ rt_end = NoDate
    /\ warned = FALSE
    /\ win_pc = "idle"

\* The last periods the model draws: the days from two base dates, one
\* before a year's end and one before the end of a leap February.
LastPeriods ==
    {Yyyymmdd(AddDays(b, i)) :
        b \in {Date(2023, 12, 18), Date(2024, 2, 15)}, i \in 0..MaxSpan}

\* The first period of a list that ends at `last`: the same file, or a file
\* of two years earlier.
FirstPeriods(last) ==
    {last, Yyyymmdd(Date(dateof(last).year - 2, dateof(last).month, 1))}

InitWindow ==
    /\ day_last \in LastPeriods
    /\ week_last \in LastPeriods
    /\ day_first \in FirstPeriods(day_last)
    /\ week_first \in FirstPeriods(week_last)
    /\ ds_start = NoDate /\ ds_end = NoDate
    /\ rt_start = NoDate /\ rt_end = NoDate
    /\ warned = FALSE
    /\ win_pc = "calc"

CalculateMostRecentFullTwelveMonths ==
    /\ win_pc = "calc"
    /\ LET end_daily_day    == EndDailyDay
           start_daily_day  == StartDailyDay(end_daily_day)
           start_weekly_day == StartWeeklyDay(start_daily_day)
           end_weekly_day   == EndWeeklyDay(end_daily_day)
       IN  /\ warned' = (\/ DateLT(start_daily_day, dateof(day_first))
                         \/ DateLT(start_weekly_day, dateof(week_first)))
           /\ ds_start' = start_daily_day
           /\ ds_end' = end_daily_day
           /\ rt_start' = start_weekly_day
           /\ rt_end' = end_weekly_day
    /\ win_pc' = "done"
    /\ UNCHANGED <<day_first, day_last, week_first, week_last>>
    /\ UNCHANGED notWindow

-----------------------------------------------------------------------------
(* Numbers: the floats of the grid, as exact fractions <<num, den>> in     *)
(* lowest terms with den > 0.                                              *)

Abs(n) == IF n < 0 THEN 0 - n ELSE n

RECURSIVE GCD(_, _)
GCD(a, b) == IF b = 0 THEN a ELSE GCD(b, a % b)

Norm(n, d) == LET g == GCD(Abs(n), d) IN <<n \div g, d \div g>>

\* float(n)
R(n) == <<n, 1>>

\* a + b
RAdd(a, b) == Norm(a[1] * b[2] + b[1] * a[2], a[2] * b[2])

\* a - b
RSub(a, b) == Norm(a[1] * b[2] - b[1] * a[2], a[2] * b[2])

\* a / k for an integer k > 0
RDivInt(a, k) == Norm(a[1], a[2] * k)

\* a < b
RLess(a, b) == a[1] * b[2] < b[1] * a[2]

-----------------------------------------------------------------------------
(* repair_missing_periods and repair.                                      *)

\* two_GW = 2.0
two_GW == 2

\* The columns of the model's grid: two DUIDs and one rooftop solar region,
\* which is still all zero when the repair runs.
GridRows ==
    {<<R(a), R(b), R(0)>> : a \in {1000, 3000, 6000}, b \in {0, 1000}}

RECURSIVE SumRow(_, _)
\* The sum of the first c cells of a row.
SumRow(row, c) == IF c = 0 THEN R(0) ELSE RAdd(SumRow(row, c - 1), row[c])

\* row_sum_5min_GW = df_five_minute.sum(1) / 1000, one row of it
RowSumGW(row) == RDivInt(SumRow(row, Len(row)), 1000)

\* power_GW < two_GW
BelowThreshold(power_GW) == RLess(power_GW, R(two_GW))

\* df_MW.iloc[i, :], i counted from 0; a negative i counts from the end.
IlocRow(df, i) == IF i >= 0 THEN df[i + 1] ELSE df[Len(df) + i + 1]

\* The 0-based row number iloc[i] names.
IlocIndex(df, i) == IF i >= 0 THEN i ELSE Len(df) + i

\* df_MW.iloc[i, :] = row
SetRow(df, i, row) == [df EXCEPT ![IlocIndex(df, i) + 1] = row]

RowSub(a, b) == [c \in DOMAIN a |-> RSub(a[c], b[c])]
RowAdd(a, b) == [c \in DOMAIN a |-> RAdd(a[c], b[c])]
RowDivInt(a, k) == [c \in DOMAIN a |-> RDivInt(a[c], k)]

\* As Deltas, with one step more than there are rows to repair.
DeltasOneStepMore(df, prior, post, num_intervals) ==
    RowDivInt(RowSub(IlocRow(df, post), IlocRow(df, prior)), num_intervals + 1)

\* deltas_GW = (df_MW.iloc[post, :] - accums_GW) / num_intervals
Deltas(df, prior, post, num_intervals) ==
    RowDivInt(RowSub(IlocRow(df, post), IlocRow(df, prior)), num_intervals)

RECURSIVE FillLoop(_, _, _, _, _, _)
\* "for i in range(start, end): df_MW.iloc[i, :] = accums_GW": g is the
\* grid and the rows assigned so far; accums_GW is row prior itself when
\* the row is a view.
FillLoop(g, i, end, accums, prior, view) ==
    IF i >= end THEN g
    ELSE LET acc == IF view THEN IlocRow(g.df, prior) ELSE accums
         IN  FillLoop([df |-> SetRow(g.df, i, acc), touched |-> g.touched \cup {i}],
                      i + 1, end, accums, prior, view)

RECURSIVE InterpolateLoop(_, _, _, _, _, _, _)
\* "for i in range(start, end): df_MW.iloc[i, :] = accums_GW;
\*  accums_GW += deltas_GW": the in-place += writes row prior of the grid
\* when accums_GW is a view of it.
InterpolateLoop(g, i, end, accums, deltas, prior, view) ==
    IF i >= end THEN g
    ELSE LET acc  == IF view THEN IlocRow(g.df, prior) ELSE accums
             df1  == SetRow(g.df, i, acc)
             acc2 == RowAdd(acc, deltas)
         IN  InterpolateLoop(
                 [df |-> IF view THEN SetRow(df1, prior, acc2) ELSE df1,
                  touched |-> g.touched \cup {i}
                                \cup (IF view THEN {IlocIndex(df1, prior)} ELSE {})],
                 i + 1, end, acc2, deltas, prior, view)

\* repair(df_MW, start, end, prior, post)
Repair(g, start, end, prior, post, view) ==
    LET num_intervals == end - start
        accums_GW     == IlocRow(g.df, prior)
    IN  IF prior = post
        THEN FillLoop(g, start, end, accums_GW, prior, view)
        ELSE InterpolateLoop(g, start, end, accums_GW,
                             Deltas(g.df, prior, post, num_intervals), prior, view)

\* As PriorOfBounded, without the test for a run at the start of the grid.
PriorAlwaysBefore(start, end) == start - 1

\* The prior row of a run that a valid row ends: start - 1, or the row at
\* end when the run is at the start of the grid.
PriorOfBounded(start, end) == IF start > 0 THEN start - 1 ELSE end

\* start = None
None == 0 - 1

RECURSIVE ScanRows(_, _, _, _, _)
\* The loop over enumerate(row_sum_5min_GW) from row i on, with its
\* variable start, and the repair of a run still open after the last row.
ScanRows(g, sums, i, start, view) ==
    IF i >= Len(sums)
    THEN IF start # None
         THEN Repair(g, start, Len(sums), start - 1, start - 1, view)
         ELSE g
    ELSE IF start = None
         THEN IF BelowThreshold(sums[i + 1])
              THEN ScanRows(g, sums, i + 1, i, view)
              ELSE ScanRows(g, sums, i + 1, None, view)
         ELSE IF ~BelowThreshold(sums[i + 1])
              THEN ScanRows(Repair(g, start, i, PriorOfBounded(start, i), i, view),
                            sums, i + 1, None, view)
              ELSE ScanRows(g, sums, i + 1, start, view)

IdleRepair ==
    /\ df_raw = <<>> /\ df_MW = <<>>
    /\ touched = {}
    /\ row_is_view = FALSE
    /\ rep_pc = "idle"

\* A grid of 1..MaxRows rows; whether a row taken with iloc is a view of
\* the grid or a copy depends on the pandas the program runs on.
InitRepair ==
    /\ \E n \in 1..MaxRows : df_raw \in [1..n -> GridRows]
    /\ df_MW = df_raw
    /\ touched = {}
    /\ row_is_view \in BOOLEAN
    /\ rep_pc = "repair"

\* main: row_sum_5min_GW = df_five_minute.sum(1) / 1000, then
\* repair_missing_periods(df_five_minute, row_sum_5min_GW)
RepairMissingPeriods ==
    /\ rep_pc = "repair"
    /\ LET row_sum_5min_GW == [i \in 1..Len(df_MW) |-> RowSumGW(df_MW[i])]
           g == ScanRows([df |-> df_MW, touched |-> {}], row_sum_5min_GW,
                         0, None, row_is_view)
       IN  /\ df_MW' = g.df
           /\ touched' = g.touched
    /\ rep_pc' = "done"
    /\ UNCHANGED <<df_raw, row_is_view>>
    /\ UNCHANGED notRepair

-----------------------------------------------------------------------------
(* add_rooftop_solar_data.                                                 *)

\* RooftopPV.REGION_IDS
REGION_IDS == <<"NSW1", "QLD1", "SA1", "TAS1", "VIC1">>

Regions == {REGION_IDS[i] : i \in DOMAIN REGION_IDS}

\* The 30 minute samples the model draws, in MW.
Samples == {R(0), R(10), R(16), R(21)}

\* As ShouldInterpolate, without the test of the start of the block.
ShouldInterpolateEndOnly(start_power, end_power) == end_power # R(0)

\* "if end_power != 0: ... if start_power != 0:"
ShouldInterpolate(start_power, end_power) ==
    end_power # R(0) /\ start_power # R(0)

\* As Dy, with five steps to the block.
DyFiveSteps(start_power, end_power) == RDivInt(RSub(end_power, start_power), 5)

\* dy = (end_power - start_power) / 6
Dy(start_power, end_power) == RDivInt(RSub(end_power, start_power), 6)

RECURSIVE WriteBlock(_, _, _, _, _)
\* "for dst_row in range(row6, row6 + 6): nwdf.iloc[dst_row, dst_col] = y;
\*  y += dy", from dst_row on
WriteBlock(col, dst_row, last_row, y, dy) ==
    IF dst_row >= last_row THEN col
    ELSE WriteBlock([col EXCEPT ![dst_row + 1] = y],
                    dst_row + 1, last_row, RAdd(y, dy), dy)

RECURSIVE BlockLoop(_, _, _, _, _)
\* "for row6 in range(0, len(nwdf.axes[0]) - 1, 6)" from row6 on; k is the
\* number of samples next(rt_iter) has handed out.
BlockLoop(col, series, row6, k, start_power) ==
    IF row6 >= Len(col) - 1 THEN col
    ELSE LET end_power == series[k + 1]
             col1 == IF ShouldInterpolate(start_power, end_power)
                     THEN WriteBlock(col, row6, row6 + 6, start_power,
                                     Dy(start_power, end_power))
                     ELSE col
         IN  BlockLoop(col1, series, row6 + 6, k + 1, end_power)

\* The body of "for region_id in rtdf.axes[1]" for one region's column.
AddRegion(col, series) == BlockLoop(col, series, 0, 1, series[1])

IdleSolar ==
    /\ rtdf = <<>> /\ nwdf = <<>>
    /\ sol_pc = "idle"

\* A grid of 6 * blocks rows whose region columns are still zero, and a
\* thirty minute series of blocks + 1 samples for each region; the samples
\* of the first two regions are drawn freely, the other regions report
\* nothing.
InitSolar ==
    /\ \E blocks \in 1..MaxBlocks :
          /\ \E s1 \in [1..(blocks + 1) -> Samples],
                s2 \in [1..(blocks + 1) -> Samples] :
                rtdf = [r \in Regions |->
                           IF r = REGION_IDS[1] THEN s1
                           ELSE IF r = REGION_IDS[2] THEN s2
                           ELSE [k \in 1..(blocks + 1) |-> R(0)]]
          /\ nwdf = [r \in Regions |-> [i \in 1..(6 * blocks) |-> R(0)]]
    /\ sol_pc = "add"

AddRooftopSolarData ==
    /\ sol_pc = "add"
    /\ nwdf' = [r \in Regions |-> AddRegion(nwdf[r], rtdf[r])]
    /\ sol_pc' = "done"
    /\ UNCHANGED rtdf
    /\ UNCHANGED notSolar

-----------------------------------------------------------------------------
(* build_cat_and_in_out_dfs: the tally by category and the in/out totals   *)
(* by channel, from the grid and the table of read_duid_categories_csv.    *)

Zero == R(0)

\* -a
RNeg(a) == <<0 - a[1], a[2]>>

\* a / b for b # 0
RDiv(a, b) ==
    IF b[1] > 0 THEN Norm(a[1] * b[2], a[2] * b[1])
    ELSE Norm(0 - (a[1] * b[2]), 0 - (a[2] * b[1]))

\* the 0.1 of "if -in_out_MW[i, 0] > 0.1"
RatioThreshold == <<1, 10>>

\* zeros([r, c])
zeros(r, c) == [i \in 1..r |-> [j \in 1..c |-> Zero]]

\* list.index(x), 0-based; None stands for the ValueError.
ListIndex(list, x) ==
    IF \E i \in DOMAIN list : list[i] = x
    THEN (CHOOSE i \in DOMAIN list :
              list[i] = x /\ \A j \in 1..(i - 1) : list[j] # x) - 1
    ELSE None

RECURSIVE ReadCategoryRows(_, _, _, _)
\* The loop of read_duid_categories_csv over the rows <<duid, category,
\* batt_load>> that follow the header row.
ReadCategoryRows(rows, i, cats, catidx) ==
    IF i > Len(rows) THEN [cat_list |-> cats, duid_catidx |-> catidx]
    ELSE LET duid == rows[i][1]
             category == rows[i][2]
             batt_load == rows[i][3]
             found == ListIndex(cats, category)
             cat_index == IF found = None THEN Len(cats) ELSE found
             cats2 == IF found = None THEN Append(cats, category) ELSE cats
         IN  ReadCategoryRows(rows, i + 1, cats2,
                 [d \in (DOMAIN catidx) \cup {duid} |->
                     IF d = duid THEN <<cat_index, batt_load = "y">>
                     ELSE catidx[d]])

read_duid_categories_csv(rows) == ReadCategoryRows(rows, 1, <<>>, <<>>)

\* The body of the inner loop: the value v of row `row` of the channel in
\* column src_col, whose category is cat_col (rows and columns 0-based).
TallyNoNegation(acc, num_cat, src_col, row, cat_col, batt_load, v) ==
    IF v = Zero THEN acc
    ELSE IF RLess(v, Zero)
         THEN [acc EXCEPT !.cat_MW[row + 1][cat_col + 1] = RAdd(@, v),
                          !.in_out_MW[src_col + 1][1] = RAdd(@, v)]
         ELSE [acc EXCEPT !.cat_MW[row + 1][num_cat + cat_col + 1] = RAdd(@, v),
                          !.in_out_MW[src_col + 1][2] = RAdd(@, v)]

TallyValue(acc, num_cat, src_col, row, cat_col, batt_load, v) ==
    IF v = Zero THEN acc
    ELSE LET srcval == IF batt_load THEN RNeg(v) ELSE v
         IN  IF RLess(srcval, Zero)
             THEN [acc EXCEPT !.cat_MW[row + 1][cat_col + 1] = RAdd(@, srcval),
                              !.in_out_MW[src_col + 1][1] = RAdd(@, srcval)]
             ELSE [acc EXCEPT !.cat_MW[row + 1][num_cat + cat_col + 1] = RAdd(@, srcval),
                              !.in_out_MW[src_col + 1][2] = RAdd(@, srcval)]

RECURSIVE TallyRows(_, _, _, _, _, _, _)
\* for row, srcval in enumerate(df_five_minute[duid])
TallyRows(acc, num_cat, src_col, row, cat_col, batt_load, column) ==
    IF row >= Len(column) THEN acc
    ELSE TallyRows(TallyValue(acc, num_cat, src_col, row, cat_col, batt_load,
                              column[row + 1]),
                   num_cat, src_col, row + 1, cat_col, batt_load, column)

\* Two columns of the frame carry the name of column src_col.
NameTwice(duids, src_col) ==
    \E k \in DOMAIN duids : k # src_col + 1 /\ duids[k] = duids[src_col + 1]

RECURSIVE TallyDuids(_, _, _, _, _, _)
\* for src_col, duid in enumerate(df_five_minute.axes[1]), df being the
\* columns of the frame in their order.  df_five_minute[duid] is the
\* column of that name; when two columns carry the name it is a frame of
\* both, enumerate hands out its column labels, and "-srcval" or
\* "srcval < 0" on the first label raises TypeError before anything is
\* added: the except clause prints and the loop goes on to the next
\* column.
TallyDuids(acc, num_cat, src_col, duids, df, catidx) ==
    IF src_col >= Len(duids) THEN acc
    ELSE LET duid == duids[src_col + 1]
             known == duid \in DOMAIN catidx
             cat_col == IF known THEN catidx[duid][1] ELSE num_cat - 1
             batt_load == IF known THEN catidx[duid][2] ELSE FALSE
             acc2 == IF known THEN acc
                     ELSE [acc EXCEPT !.unknown_duids = Append(@, duid)]
         IN  TallyDuids(IF NameTwice(duids, src_col) THEN acc2
                        ELSE TallyRows(acc2, num_cat, src_col, 0, cat_col,
                                       batt_load, df[src_col + 1]),
                        num_cat, src_col + 1, duids, df, catidx)

\* The averages of the mutated code: the totals are divided by the number
\* of channels.
AveragesOverChannels(in_out_MW, row_count) ==
    [i \in DOMAIN in_out_MW |->
        [j \in DOMAIN in_out_MW[i] |->
            RDivInt(in_out_MW[i][j], Len(in_out_MW))]]

\* in_out_MW /= row_count
Averages(in_out_MW, row_count) ==
    [i \in DOMAIN in_out_MW |->
        [j \in DOMAIN in_out_MW[i] |-> RDivInt(in_out_MW[i][j], row_count)]]

\* The turnaround ratio of the mutated code: the test is made on the total.
TurnaroundOnTotals(in_out_MW, row_count) ==
    [i \in DOMAIN in_out_MW |->
        IF RLess(RatioThreshold,
                 RNeg(<<in_out_MW[i][1][1] * row_count, in_out_MW[i][1][2]>>))
        THEN [in_out_MW[i] EXCEPT ![3] = RDiv(in_out_MW[i][2],
                                              RNeg(in_out_MW[i][1]))]
        ELSE in_out_MW[i]]

\* The turnaround ratio: the loop over range(in_out_MW.shape[0]), made
\* after the division by row_count.
Turnaround(in_out_MW, row_count) ==
    [i \in DOMAIN in_out_MW |->
        IF RLess(RatioThreshold, RNeg(in_out_MW[i][1]))
        THEN [in_out_MW[i] EXCEPT ![3] = RDiv(in_out_MW[i][2],
                                              RNeg(in_out_MW[i][1]))]
        ELSE in_out_MW[i]]

\* cat_MW without the two "Unknown" columns: the concatenate of
\* cat_MW[:, :num_cat - 1] and cat_MW[:, num_cat : 2 * num_cat - 1].
DropUnknownKeepsPlus(cat_MW, num_cat) ==
    [i \in DOMAIN cat_MW |->
        SubSeq(cat_MW[i], 1, num_cat - 1)
        \o SubSeq(cat_MW[i], num_cat, 2 * num_cat - 2)]

DropUnknown(cat_MW, num_cat) ==
    [i \in DOMAIN cat_MW |->
        SubSeq(cat_MW[i], 1, num_cat - 1)
        \o SubSeq(cat_MW[i], num_cat + 1, 2 * num_cat - 1)]

\* The column names: "-" + cat for every category, then "+" + cat.
Columns(cats) ==
    [k \in 1..(2 * Len(cats)) |->
        IF k <= Len(cats) THEN "-" \o cats[k] ELSE "+" \o cats[k - Len(cats)]]

IdleAgg ==
    /\ agg_duids = <<>>
    /\ agg_df = <<>>
    /\ cat_list = <<>>
    /\ duid_catidx = <<>>
    /\ unknown_duids = <<>>
    /\ df_categories = [columns |-> <<>>, rows |-> <<>>]
    /\ df_in_out = <<>>
    /\ agg_pc = "idle"

\* The values of the cells of the grid, in MW.
AggValues == {Zero, R(4), R(0 - 5), <<0 - 1, 20>>, <<0 - 3, 20>>}

\* The channels of the grid: df_five_minute.axes[1] is sorted.
AggDuids == <<"BATT1", "GEN1">>

\* The channels of a grid in which a channel of the primary feed has the
\* name of a region: all_sorted_ids holds that name twice.
AggDuidsTwice == <<"BATT1", "NSW1", "NSW1">>

\* The rows of "DUID categories.csv": BATT1 is a battery, as a load or
\* not; GEN1 is missing, or a battery too, or of a category of its own;
\* a channel that is not in the grid may come between them.  A category
\* may have any name: no name is reserved, so the file may call the
\* category of GEN1 "Unknown", or that of the channel that is not in the
\* grid while GEN1 is missing.
CategoryFiles ==
    {<<<<"BATT1", "Battery", yn>>>> \o rest :
        yn \in {"y", "n"},
        rest \in {other \o gen :
                    other \in {<<>>, <<<<"OLD1", "Coal", "n">>>>},
                    gen \in {<<>>, <<<<"GEN1", "Battery", "n">>>>,
                             <<<<"GEN1", "Gas", "n">>>>}}
                 \cup {<<<<"GEN1", "Unknown", "n">>>>,
                       <<<<"OLD1", "Unknown", "n">>>>}}

InitAgg ==
    /\ \/ /\ agg_duids = AggDuids
          /\ \E n \in 1..MaxAggRows :
               \E b, g \in [1..n -> AggValues] : agg_df = <<b, g>>
       \/ /\ agg_duids = AggDuidsTwice
          /\ \E b, g, h \in [1..1 -> AggValues] : agg_df = <<b, g, h>>
    /\ \E rows \in CategoryFiles :
         LET o == read_duid_categories_csv(rows)
         IN  cat_list = o.cat_list /\ duid_catidx = o.duid_catidx
    /\ unknown_duids = <<>>
    /\ df_categories = [columns |-> <<>>, rows |-> <<>>]
    /\ df_in_out = <<>>
    /\ agg_pc = "tally"

BuildCatAndInOutDfs ==
    /\ agg_pc = "tally"
    /\ LET num_cat == Len(cat_list) + 1
           row_count == Len(agg_df[1])
           acc == TallyDuids([cat_MW |-> zeros(row_count, num_cat * 2),
                              in_out_MW |-> zeros(Len(agg_duids), 3),
                              unknown_duids |-> <<>>],
                             num_cat, 0, agg_duids, agg_df, duid_catidx)
           in_out_MW == Averages(acc.in_out_MW, row_count)
           some_unknown == Len(acc.unknown_duids) > 0
           cats == IF some_unknown THEN Append(cat_list, "Unknown")
                   ELSE cat_list
           cat_MW == IF some_unknown THEN acc.cat_MW
                     ELSE DropUnknown(acc.cat_MW, num_cat)
       IN  /\ unknown_duids' = acc.unknown_duids
           /\ df_categories' = [columns |-> Columns(cats), rows |-> cat_MW]
           /\ df_in_out' = Turnaround(in_out_MW, row_count)
    /\ agg_pc' = "done"
    /\ UNCHANGED <<agg_duids, agg_df, cat_list, duid_catidx>>
    /\ UNCHANGED notAgg

-----------------------------------------------------------------------------
(* load_nem_data_file: one outer archive of a feed is read, inner archive  *)
(* by inner archive, into the matrix of the period.                        *)

\* The two subclasses of NEMWebCommon.
Feeds == {"DispatchSCADA", "RooftopPV"}

MINUTES_PER_INTERVAL(feed) == IF feed = "DispatchSCADA" THEN 5 ELSE 30

BEGIN_MINUTE(feed) == IF feed = "DispatchSCADA" THEN 5 ELSE 0

INTERVALS_PER_FILE(feed) ==
    IF feed = "DispatchSCADA" THEN 24 * (60 \div 5) ELSE 7 * 24 * (60 \div 30)

\* The names of the three columns that parse_csvfile looks up in a row "I".
HeaderNames(feed) ==
    IF feed = "DispatchSCADA" THEN <<"SETTLEMENTDATE", "DUID", "SCADAVALUE">>
    ELSE <<"INTERVAL_DATETIME", "REGIONID", "POWER">>

\* int(x) of the float n / d with d > 0: the fraction is cut off.
IntOf(n, d) == IF n >= 0 THEN n \div d ELSE 0 - ((0 - n) \div d)

\* read_interval_zip: load.interval of a payload whose file name carries
\* the time `stamp`, in minutes from 00:00 of the day the period starts:
\* int(seconds / (60 * MINUTES_PER_INTERVAL) + 0.5).
IntervalOf(feed, stamp) ==
    LET seconds == (stamp - BEGIN_MINUTE(feed)) * 60
        length == 60 * MINUTES_PER_INTERVAL(feed)
    IN  IntOf(2 * seconds + length, 2 * length)

\* float(s) succeeds on these strings and raises ValueError on the others.
IsFloat(s) == s \in {"0", "0.0", "50", "7.5", "-30"}

FloatOf(s) ==
    CASE s = "50" -> R(50)
      [] s = "7.5" -> <<15, 2>>
      [] s = "-30" -> R(0 - 30)
      [] OTHER -> Zero

\* datetime.strptime(s, "%Y/%m/%d %H:%M:%S") succeeds.
IsStamp(s) == s \in {"2024/02/29 00:05:00", "2024/02/29 00:10:00"}

\* list[i] of Python, 0-based, for lists in which i is known to be.
At(list, i) == list[i + 1]

\* The object `load` when load_nem_data_file has initialised it.  data_MW
\* is the list of None of DispatchSCADA (a row is set once a payload has
\* been stored in it) or the zeros of RooftopPV; has_cols stands for
\* hasattr(load, "timedate_col") or hasattr(load, "interval_col"), and a
\* column attribute that is not set is None.
NewLoad(feed) ==
    [data_MW |-> IF feed = "DispatchSCADA"
                 THEN [i \in 1..INTERVALS_PER_FILE(feed) |->
                          [set |-> FALSE, row |-> <<>>]]
                 ELSE zeros(INTERVALS_PER_FILE(feed), Len(REGION_IDS)),
     duid_list |-> <<>>,
     has_cols |-> FALSE,
     date_col |-> None, id_col |-> None, MW_col |-> None,
     interval |-> 0,
     interval_MW |-> <<>>,
     log |-> {},
     read |-> 0,
     error |-> "none"]

Raise(load, error) == [load EXCEPT !.error = error]

Log(load, message) == [load EXCEPT !.log = @ \cup {message}]

\* case "I": the three row.index(...) calls, once for the object `load`.
\* Each assigns its attribute before the next is evaluated, so a name that
\* is missing raises ValueError with the attributes before it set.
ParseHeader(feed, load, row) ==
    IF load.has_cols THEN load
    ELSE LET names == HeaderNames(feed)
             a == ListIndex(row, names[1])
             b == ListIndex(row, names[2])
             c == ListIndex(row, names[3])
             first == [load EXCEPT !.has_cols = TRUE, !.date_col = a]
             second == [first EXCEPT !.id_col = b]
         IN  IF a = None THEN Raise(load, "ValueError")
             ELSE IF b = None THEN Raise(first, "ValueError")
             ELSE IF c = None THEN Raise(second, "ValueError")
             ELSE [second EXCEPT !.MW_col = c]

\* case "D" of DispatchSCADA.parse_csvfile.
ParseDataDispatch(load, row) ==
    IF load.MW_col = None THEN Raise(load, "AttributeError")
    ELSE IF load.MW_col >= Len(row) THEN Raise(load, "IndexError")
    ELSE LET power == At(row, load.MW_col)
         IN  IF power # "0" /\ 4 >= Len(row) THEN Raise(load, "IndexError")
             ELSE IF power # "0" /\ ~IsStamp(At(row, 4))
                  THEN Raise(load, "ValueError")
             ELSE IF power = "0" THEN load
             ELSE IF load.id_col >= Len(row) THEN Raise(load, "IndexError")
             ELSE LET duid == At(row, load.id_col)
                      found == ListIndex(load.duid_list, duid)
                      duid_index == IF found = None THEN Len(load.duid_list)
                                    ELSE found
                      load2 == IF found # None THEN load
                               ELSE [load EXCEPT
                                        !.duid_list = Append(@, duid),
                                        !.interval_MW = Append(@, Zero)]
                  IN  IF IsFloat(power)
                      THEN [load2 EXCEPT
                               !.interval_MW[duid_index + 1] = FloatOf(power)]
                      ELSE Log(load2, "Failed to read line")

\* load.data_MW[load.interval, state_index] = value: a negative index
\* counts from the end, an index outside the array raises IndexError.
StoreCell(feed, load, state_index, value) ==
    LET n == INTERVALS_PER_FILE(feed)
        i == load.interval
    IN  IF i >= n \/ i < 0 - n THEN Raise(load, "IndexError")
        ELSE [load EXCEPT
                 !.data_MW[(IF i < 0 THEN i + n ELSE i) + 1][state_index + 1] =
                     value]

\* case "D" of RooftopPV.parse_csvfile.
ParseDataRooftop(feed, load, row) ==
    IF load.id_col = None THEN Raise(load, "AttributeError")
    ELSE IF load.id_col >= Len(row) THEN Raise(load, "IndexError")
    ELSE LET o == At(row, load.id_col)
             state_index == ListIndex(REGION_IDS, o)
         IN  IF state_index = None THEN load
             ELSE IF load.MW_col >= Len(row) THEN Raise(load, "IndexError")
             ELSE LET power == At(row, load.MW_col)
                  IN  IF power = "0" THEN load
                      ELSE IF power = "" THEN Log(load, "Missing power(s)")
                      ELSE IF IsFloat(power)
                           THEN StoreCell(feed, load, state_index,
                                          FloatOf(power))
                           ELSE StoreCell(feed,
                                          Log(load, "Failed to read line"),
                                          state_index, Zero)

\* The body of the loop of parse_csvfile: match row[0].
ParseRow(feed, load, row) ==
    IF Len(row) = 0 THEN Raise(load, "IndexError")
    ELSE CASE row[1] = "C" -> load
           [] row[1] = "I" -> ParseHeader(feed, load, row)
           [] row[1] = "D" -> IF feed = "DispatchSCADA"
                              THEN ParseDataDispatch(load, row)
                              ELSE ParseDataRooftop(feed, load, row)
           [] OTHER -> Log(load, "Unexpected row")

RECURSIVE ParseRows(_, _, _, _)
\* for lineno, row in enumerate(csvreader)
ParseRows(feed, load, rows, i) ==
    IF i > Len(rows) \/ load.error # "none" THEN load
    ELSE ParseRows(feed, ParseRow(feed, load, rows[i]), rows, i + 1)

\* The last line of DispatchSCADA.parse_csvfile:
\* load.data_MW[load.interval] = interval_MW.
StoreRow(feed, load) ==
    LET n == INTERVALS_PER_FILE(feed)
        i == load.interval
    IN  IF i >= n \/ i < 0 - n THEN Raise(load, "IndexError")
        ELSE [load EXCEPT !.data_MW[(IF i < 0 THEN i + n ELSE i) + 1] =
                 [set |-> TRUE, row |-> load.interval_MW]]

\* parse_csvfile of the feed, on the rows of one payload.
parse_csvfile(feed, load, rows) ==
    IF feed = "DispatchSCADA"
    THEN LET start == [load EXCEPT !.interval_MW =
                          [k \in 1..Len(load.duid_list) |-> Zero]]
             after == ParseRows(feed, start, rows, 1)
         IN  IF after.error # "none" THEN after ELSE StoreRow(feed, after)
    ELSE ParseRows(feed, load, rows, 1)

\* read_interval_zip on an inner archive that holds one payload.
read_interval_zip(feed, load, entry) ==
    parse_csvfile(feed,
                  [load EXCEPT !.interval = IntervalOf(feed, entry.stamp)],
                  entry.rows)

\* The body of the loop over zf.namelist(): the entry i of the archive.
\* Nothing more is read once an exception has been raised.
ReadEntry(feed, load, archive, i) ==
    IF load.error # "none" THEN load
    ELSE LET entry == archive[i]
             load2 == IF entry.zip
                      THEN read_interval_zip(feed, load, entry)
                      ELSE Log(load, "Unexpected file")
         IN  [load2 EXCEPT !.read = i]

RECURSIVE ReadInner(_, _, _, _, _)
\* for filename in zf.namelist(): the entries lo..hi in their order (the
\* range is halved to keep the evaluation shallow).
ReadInner(feed, load, archive, lo, hi) ==
    IF lo > hi THEN load
    ELSE IF lo = hi THEN ReadEntry(feed, load, archive, lo)
    ELSE LET mid == (lo + hi) \div 2
             first == ReadInner(feed, load, archive, lo, mid)
         IN  IF first.error # "none" THEN first
             ELSE ReadInner(feed, first, archive, mid + 1, hi)

\* The mutated finalise_data_MW: the rows no payload was stored in are
\* left out of the matrix.
FinaliseStoredRows(feed, load) ==
    IF feed = "DispatchSCADA"
    THEN LET stored == SelectSeq(load.data_MW, LAMBDA x : x.set)
         IN  [load EXCEPT !.data_MW =
                 [r \in 1..Len(stored) |->
                     [c \in 1..Len(load.duid_list) |->
                         IF c <= Len(stored[r].row)
                         THEN stored[r].row[c] ELSE Zero]]]
    ELSE [load EXCEPT
             !.data_MW = SelectSeq(@, LAMBDA x :
                             \E c \in DOMAIN x : x[c] # Zero),
             !.duid_list = REGION_IDS]

\* finalise_data_MW: the matrix of INTERVALS_PER_FILE rows.
finalise_data_MW(feed, load) ==
    IF feed = "DispatchSCADA"
    THEN [load EXCEPT !.data_MW =
             [r \in 1..INTERVALS_PER_FILE(feed) |->
                 [c \in 1..Len(load.duid_list) |->
                     IF load.data_MW[r].set /\ c <= Len(load.data_MW[r].row)
                     THEN load.data_MW[r].row[c] ELSE Zero]]]
    ELSE [load EXCEPT !.duid_list = REGION_IDS]

\* The rows "C", "I", "D" and others of the payloads.
RowC == <<"C", "NEMP.WORLD">>

RowI(feed) ==
    IF feed = "DispatchSCADA"
    THEN <<"I", "DISPATCH", "UNIT_SCADA", "1",
           "SETTLEMENTDATE", "DUID", "SCADAVALUE">>
    ELSE <<"I", "ROOFTOP", "ACTUAL", "2",
           "INTERVAL_DATETIME", "REGIONID", "POWER">>

\* A header row in which the value comes before the identifier.
RowISwapped(feed) ==
    IF feed = "DispatchSCADA"
    THEN <<"I", "DISPATCH", "UNIT_SCADA", "1",
           "SETTLEMENTDATE", "SCADAVALUE", "DUID">>
    ELSE <<"I", "ROOFTOP", "ACTUAL", "2",
           "INTERVAL_DATETIME", "POWER", "REGIONID">>

RowD(feed, stamp, id, power) ==
    IF feed = "DispatchSCADA"
    THEN <<"D", "DISPATCH", "UNIT_SCADA", "1", stamp, id, power>>
    ELSE <<"D", "ROOFTOP", "ACTUAL", "2", stamp, id, power>>

\* The identifiers of the channels in the rows "D".
Id1(feed) == IF feed = "DispatchSCADA" THEN "GEN1" ELSE "NSW1"

Id2(feed) == IF feed = "DispatchSCADA" THEN "GEN2" ELSE "VIC1"

GoodStamp == "2024/02/29 00:05:00"

\* The payloads of the model: well formed ones, and one for each anomaly.
PayloadPlain(feed) == <<RowC, RowI(feed), RowD(feed, GoodStamp, Id1(feed), "50")>>

PayloadTwo(feed) ==
    <<RowI(feed), RowD(feed, GoodStamp, Id2(feed), "7.5"),
      RowD(feed, GoodStamp, Id1(feed), "0")>>

PayloadNotNumeric(feed) ==
    <<RowI(feed), RowD(feed, GoodStamp, Id1(feed), "abc"), <<"X", "junk">>>>

PayloadEmptyValue(feed) == <<RowI(feed), RowD(feed, GoodStamp, Id2(feed), "")>>

PayloadNoHeader(feed) == <<RowD(feed, GoodStamp, Id1(feed), "-30")>>

PayloadBadStamp(feed) ==
    <<RowI(feed), RowD(feed, "29-02-2024", Id1(feed), "7.5")>>

PayloadShortRow(feed) ==
    <<RowI(feed), SubSeq(RowD(feed, GoodStamp, Id1(feed), "50"), 1, 2)>>

PayloadBlankLine(feed) == <<RowI(feed), <<>>>>

PayloadSwapped(feed) ==
    <<RowISwapped(feed), RowD(feed, GoodStamp, "50", Id2(feed))>>

\* Header rows that lack the name of the identifier or of the value.
PayloadHeaderNoId(feed) ==
    <<SubSeq(RowI(feed), 1, 5) \o <<RowI(feed)[7]>>,
      RowD(feed, GoodStamp, Id1(feed), "50")>>

PayloadHeaderNoValue(feed) ==
    <<SubSeq(RowI(feed), 1, 6), RowD(feed, GoodStamp, Id1(feed), "50")>>

Payloads(feed) ==
    {PayloadPlain(feed), PayloadTwo(feed), PayloadNotNumeric(feed),
     PayloadEmptyValue(feed), PayloadNoHeader(feed), PayloadBadStamp(feed),
     PayloadShortRow(feed), PayloadBlankLine(feed), PayloadSwapped(feed),
     PayloadHeaderNoId(feed), PayloadHeaderNoValue(feed)}

\* The time in the name of the k-th payload of a complete period, in
\* minutes from 00:00 of its first day.
StampOf(feed, k) == BEGIN_MINUTE(feed) + (k - 1) * MINUTES_PER_INTERVAL(feed)

\* The times of the payloads outside a complete period: one and two
\* intervals before its first, one after its last, half an interval
\* after its first.
OddStamps(feed) ==
    {StampOf(feed, 0), StampOf(feed, 0 - 1),
     StampOf(feed, INTERVALS_PER_FILE(feed) + 1),
     StampOf(feed, 1) + (MINUTES_PER_INTERVAL(feed) \div 2)}

\* An entry of the outer archive: a file that is not an inner archive, or
\* an inner archive with its payload.
Entry(is_zip, stamp, rows) == [zip |-> is_zip, stamp |-> stamp, rows |-> rows]

Entries(feed) ==
    {Entry(FALSE, 0, <<>>)}
    \cup {Entry(TRUE, StampOf(feed, 2), p) : p \in Payloads(feed)}
    \cup {Entry(TRUE, s, PayloadPlain(feed)) : s \in OddStamps(feed)}
    \cup {Entry(TRUE, StampOf(feed, INTERVALS_PER_FILE(feed)), PayloadTwo(feed))}

\* The outer archive of a complete period: one inner archive for every
\* interval.
FullPeriod(feed) ==
    [k \in 1..INTERVALS_PER_FILE(feed) |->
        Entry(TRUE, StampOf(feed, k),
              IF k % 2 = 1 THEN PayloadPlain(feed) ELSE PayloadTwo(feed))]

\* The sequences of at most n entries.
EntrySeqs(feed, n) ==
    UNION {[1..k -> Entries(feed)] : k \in 0..n}

IdleLoad ==
    /\ ld_feed = "none"
    /\ ld_source = "none"
    /\ ld_archive = <<>>
    /\ ld_load = <<>>
    /\ ld_df = <<>>
    /\ ld_pc = "idle"

\* The outer archives of the model: at most MaxInner entries, or a
\* complete period followed by fewer than MaxInner more entries.
Archives(feed) ==
    EntrySeqs(feed, MaxInner)
    \cup {FullPeriod(feed) \o more : more \in EntrySeqs(feed, MaxInner - 1)}

\* The archive is downloaded, or read from the mirror directory; when the
\* bytes cannot be had there is no archive.
InitLoadFile ==
    /\ ld_feed \in Feeds
    /\ ld_source \in {"http", "local", "http fails", "no such path"}
    /\ IF ld_source = "http" THEN ld_archive \in Archives(ld_feed)
       ELSE IF ld_source = "local"
       THEN ld_archive \in EntrySeqs(ld_feed, MaxInner)
       ELSE ld_archive = <<>>
    /\ ld_load = <<>>
    /\ ld_df = <<>>
    /\ ld_pc = "load"

LoadNemDataFile ==
    /\ ld_pc = "load"
    /\ IF ld_source = "http fails"
       THEN /\ ld_load' = Raise(NewLoad(ld_feed), "ConnectionError")
            /\ ld_df' = ld_df
            /\ ld_pc' = "aborted"
       ELSE IF ld_source = "no such path"
       THEN /\ ld_load' = Raise(Log(NewLoad(ld_feed), "Unknown url or path"),
                                "NameError")
            /\ ld_df' = ld_df
            /\ ld_pc' = "aborted"
       ELSE LET start == IF Len(ld_archive) # INTERVALS_PER_FILE(ld_feed)
                         THEN Log(NewLoad(ld_feed), "Warning: files")
                         ELSE NewLoad(ld_feed)
                load == ReadInner(ld_feed, start, ld_archive, 1, Len(ld_archive))
                final == finalise_data_MW(ld_feed, load)
            IN  IF load.error # "none"
                THEN /\ ld_load' = load
                     /\ ld_df' = ld_df
                     /\ ld_pc' = "aborted"
                ELSE /\ ld_load' = final
                     /\ ld_df' = [rows |-> final.data_MW,
                                  columns |-> final.duid_list,
                                  start |-> BEGIN_MINUTE(ld_feed),
                                  periods |-> INTERVALS_PER_FILE(ld_feed),
                                  freq |-> MINUTES_PER_INTERVAL(ld_feed)]
                     /\ ld_pc' = "done"
    /\ UNCHANGED <<ld_feed, ld_source, ld_archive>>
    /\ UNCHANGED notLoad

-----------------------------------------------------------------------------
(* The runs of the program over one feed: build_file_lists, select_files,  *)
(* build_twelve_month_list and load_nem_data, run after run over the PKL   *)
(* files that the earlier runs left in data_dir.                           *)

\* What a run leaves alone while it builds the three lists.
notRun ==
    <<windowVars, repairVars, solarVars, aggVars, loadVars, pipeVars,
      listingVars>>

\* The mutated glob of the PKL files: it finds none.
PklListEmpty(files) == <<>>

\* build_file_lists: the sorted list of the PKL files of data_dir.
local_pklfile_list(files) == SortedList("lp", DOMAIN files)

RECURSIVE FirstKept(_, _, _, _)
\* The loop of build_twelve_month_list skips the tuples of self.filelist
\* while flag is up, that is up to the first one whose date is not below
\* start_yyyymmdd: the position of that tuple in files[lo..hi], or 0.
FirstKept(files, lo, hi, start_yyyymmdd) ==
    IF lo > hi THEN 0
    ELSE IF lo = hi
         THEN IF Ymd(files[lo][2]) < start_yyyymmdd THEN 0 ELSE lo
         ELSE LET mid == (lo + hi) \div 2
                  left == FirstKept(files, lo, mid, start_yyyymmdd)
              IN  IF left # 0 THEN left
                  ELSE FirstKept(files, mid + 1, hi, start_yyyymmdd)

\* build_twelve_month_list: from that tuple on every tuple is appended,
\* whatever its date, and the loop breaks after an append that brings the
\* list to number_of_files tuples (after the first append if
\* number_of_files is below 1).
build_twelve_month_list(files, start_yyyymmdd, number_of_files) ==
    LET first == FirstKept(files, 1, Len(files), start_yyyymmdd)
        wanted == IF number_of_files < 1 THEN 1 ELSE number_of_files
        last == IF first + wanted - 1 > Len(files) THEN Len(files)
                ELSE first + wanted - 1
    IN  IF first = 0 THEN <<>> ELSE SubSeq(files, first, last)

\* The matrix that load_nem_data_file makes of the archive of a period:
\* the copy of the mirror directory may differ from the remote one.
MatrixOf(path) ==
    [period |-> Ymd(path), data |-> IF path.tier = "lz" THEN 1 ELSE 2]

\* What is left of a PKL file when dump raises after open(fullpath, "wb")
\* has made the file: no matrix can be read from it.
TruncatedPkl == [period |-> None, data |-> None]

\* What one iteration of load_nem_data does for a ZIP file, in its order:
\* load_nem_data_file (the download if the file is on the server, then
\* the parse of every inner archive), then the dump of the matrix.
ZipEvents(k, remote) ==
    (IF remote THEN <<<<"fetch", k>>>> ELSE <<>>)
        \o <<<<"parse", k>>, <<"write", k>>>>

\* by period, nothing done
NoWork == [k \in MergeKeys |-> {}]

IdleCache ==
    /\ mirror_dir = "None"
    /\ mirror_keys = {}
    /\ malformed = {}
    /\ cache = <<>>
    /\ tw_start = 0
    /\ tw_files = 0
    /\ twelve_month_list = <<>>
    /\ tm_pos = 0
    /\ nem_MW_df_list = <<>>
    /\ prev_df_list = <<>>
    /\ runs = 0
    /\ fetches = <<>>
    /\ work = <<>>
    /\ prev_work = <<>>
    /\ events = <<>>
    /\ run_pc = "idle"

\* What the constructor is given as mirror_dir.  main passes None on, keeps
\* the empty string (it is falsy there, and names the working directory in
\* build_file_lists) and turns every other value into a Path; a caller of
\* the classes passes a string.
MirrorDirs == {"None", "str", "Path"}

\* Before the first run: no PKL file yet; the window starts at the first
\* or at the second period of the server and holds all but one of them.
\* Without a mirror directory there are no archives in it.
InitRuns ==
    /\ mirror_dir \in MirrorDirs
    /\ mirror_keys \in IF mirror_dir = "None" THEN {{}} ELSE SUBSET MergeKeys
    /\ malformed \in {{}} \cup {{k} : k \in MergeKeys}
    /\ cache = <<>>
    /\ tw_start \in {k \in MergeKeys :
                        Cardinality({j \in MergeKeys : j < k}) <= 1}
    /\ tw_files = MaxKey - 1
    /\ twelve_month_list = <<>>
    /\ tm_pos = 0
    /\ nem_MW_df_list = <<>>
    /\ prev_df_list = <<>>
    /\ runs = 0
    /\ fetches = [k \in MergeKeys |-> 0]
    /\ work = NoWork
    /\ prev_work = NoWork
    /\ events = <<>>
    /\ run_pc = "start"

\* A run starts and build_file_lists raises: "".join((self.mirror_dir,
\* cls.WEB_SUBDIR)) is a TypeError when mirror_dir is a Path, whatever the
\* directory holds.  remote_zipfile_list is set by then, the two local
\* lists are not, and the constructor does not return.
BuildFileListsRaises ==
    /\ run_pc \in {"start", "complete", "aborted"}
    /\ runs < MaxRuns
    /\ mirror_dir = "Path"
    /\ runs' = runs + 1
    /\ rzlist' = SortedList("rz", MergeKeys)
    /\ lzlist' = <<>>
    /\ lplist' = <<>>
    /\ lp' = 0 /\ lz' = 0 /\ rz' = 0
    /\ filelist' = <<>>
    /\ sel_pc' = "idle"
    /\ prev_work' = work
    /\ work' = NoWork
    /\ events' = <<<<"TypeError", None>>>>
    /\ prev_df_list' = nem_MW_df_list
    /\ nem_MW_df_list' = <<>>
    /\ twelve_month_list' = <<>>
    /\ tm_pos' = 0
    /\ run_pc' = "aborted"
    /\ UNCHANGED <<mirror_dir, mirror_keys, malformed, cache, tw_start,
                   tw_files, fetches>>
    /\ UNCHANGED notRun

\* A run starts: build_file_lists.  The server lists every period; the
\* archives of the mirror are listed when mirror_dir is a string.
StartRun ==
    /\ run_pc \in {"start", "complete", "aborted"}
    /\ runs < MaxRuns
    /\ mirror_dir # "Path"
    /\ runs' = runs + 1
    /\ rzlist' = SortedList("rz", MergeKeys)
    /\ lzlist' = IF mirror_dir = "None" THEN <<>>
                  ELSE SortedList("lz", mirror_keys)
    /\ lplist' = local_pklfile_list(cache)
    /\ lp' = 0 /\ lz' = 0 /\ rz' = 0
    /\ filelist' = <<>>
    /\ sel_pc' = "select"
    /\ prev_work' = work
    /\ work' = NoWork
    /\ events' = <<>>
    /\ prev_df_list' = nem_MW_df_list
    /\ nem_MW_df_list' = <<>>
    /\ twelve_month_list' = <<>>
    /\ tm_pos' = 0
    /\ run_pc' = "select"
    /\ UNCHANGED <<mirror_dir, mirror_keys, malformed, cache, tw_start,
                   tw_files, fetches>>
    /\ UNCHANGED notRun

\* select_files has returned: build_twelve_month_list.
BuildTwelveMonthList ==
    /\ run_pc = "select"
    /\ sel_pc = "done"
    /\ twelve_month_list' = build_twelve_month_list(filelist, tw_start, tw_files)
    /\ tm_pos' = 0
    /\ run_pc' = "load"
    /\ UNCHANGED <<mirror_dir, mirror_keys, malformed, cache, tw_start,
                   tw_files, nem_MW_df_list, prev_df_list, runs, fetches,
                   work, prev_work, events>>
    /\ UNCHANGED notCache

\* One iteration of the loop of load_nem_data over a PKL file:
\* load_pkl_file, whose pickle_load returns the matrix of a file that was
\* dumped whole.
LoadPkl ==
    /\ run_pc = "load"
    /\ tm_pos < Len(twelve_month_list)
    /\ LET o == twelve_month_list[tm_pos + 1]
           k == Ymd(o[2])
       IN  /\ ~o[1]
           /\ cache[k] # TruncatedPkl
           /\ work' = [work EXCEPT ![k] = @ \cup {"read"}]
           /\ events' = Append(events, <<"read", k>>)
           /\ nem_MW_df_list' = Append(nem_MW_df_list, cache[k])
    /\ tm_pos' = tm_pos + 1
    /\ UNCHANGED <<mirror_dir, mirror_keys, malformed, cache, tw_start,
                   tw_files, twelve_month_list, prev_df_list, runs, fetches,
                   prev_work, run_pc>>
    /\ UNCHANGED notCache

\* load_pkl_file over a PKL file that an earlier run left truncated:
\* pickle_load raises (EOFError or UnpicklingError) and the run ends;
\* the file stays as it is.
LoadPklRaises ==
    /\ run_pc = "load"
    /\ tm_pos < Len(twelve_month_list)
    /\ LET o == twelve_month_list[tm_pos + 1]
           k == Ymd(o[2])
       IN  /\ ~o[1]
           /\ cache[k] = TruncatedPkl
           /\ work' = [work EXCEPT ![k] = @ \cup {"read raised"}]
           /\ events' = Append(events, <<"read raised", k>>)
    /\ run_pc' = "aborted"
    /\ UNCHANGED <<mirror_dir, mirror_keys, malformed, cache, tw_start,
                   tw_files, twelve_month_list, tm_pos, nem_MW_df_list,
                   prev_df_list, runs, fetches, prev_work>>
    /\ UNCHANGED notCache

\* One iteration of the loop of load_nem_data over a ZIP file:
\* load_nem_data_file, then the dump of the matrix to the PKL file, when
\* neither raises.
LoadZip ==
    /\ run_pc = "load"
    /\ tm_pos < Len(twelve_month_list)
    /\ LET o == twelve_month_list[tm_pos + 1]
           k == Ymd(o[2])
           remote == o[2].tier = "rz"
           did == (IF remote THEN {"fetch"} ELSE {}) \cup {"parse", "write"}
       IN  /\ o[1]
           /\ k \notin malformed
           /\ fetches' = [fetches EXCEPT ![k] = IF remote THEN @ + 1 ELSE @]
           /\ work' = [work EXCEPT ![k] = @ \cup did]
           /\ events' = events \o ZipEvents(k, remote)
           /\ cache' = [j \in (DOMAIN cache) \cup {k} |->
                           IF j = k THEN MatrixOf(o[2]) ELSE cache[j]]
           /\ nem_MW_df_list' = Append(nem_MW_df_list, MatrixOf(o[2]))
    /\ tm_pos' = tm_pos + 1
    /\ UNCHANGED <<mirror_dir, mirror_keys, malformed, tw_start, tw_files,
                   twelve_month_list, prev_df_list, runs, prev_work, run_pc>>
    /\ UNCHANGED notCache

\* The archive was obtained and parsed, open(fullpath, "wb") has made the
\* PKL file and dump raises (the disk is full, the run is interrupted):
\* the run ends with the truncated file in data_dir and without the
\* append of the matrix.
DumpRaises ==
    /\ run_pc = "load"
    /\ tm_pos < Len(twelve_month_list)
    /\ LET o == twelve_month_list[tm_pos + 1]
           k == Ymd(o[2])
           remote == o[2].tier = "rz"
       IN  /\ o[1]
           /\ k \notin malformed
           /\ fetches' = [fetches EXCEPT ![k] = IF remote THEN @ + 1 ELSE @]
           /\ work' = [work EXCEPT ![k] =
                          @ \cup (IF remote THEN {"fetch"} ELSE {})
                            \cup {"parse", "dump raised"}]
           /\ events' = events
                  \o (IF remote THEN <<<<"fetch", k>>>> ELSE <<>>)
                  \o <<<<"parse", k>>, <<"dump raised", k>>>>
           /\ cache' = [j \in (DOMAIN cache) \cup {k} |->
                           IF j = k THEN TruncatedPkl ELSE cache[j]]
    /\ run_pc' = "aborted"
    /\ UNCHANGED <<mirror_dir, mirror_keys, malformed, tw_start, tw_files,
                   twelve_month_list, tm_pos, nem_MW_df_list, prev_df_list,
                   runs, prev_work>>
    /\ UNCHANGED notCache

\* requests_get raises in load_nem_data_file: the run ends there.
FetchFails ==
    /\ run_pc = "load"
    /\ tm_pos < Len(twelve_month_list)
    /\ LET o == twelve_month_list[tm_pos + 1]
       IN  /\ o[1] /\ o[2].tier = "rz"
           /\ events' = Append(events, <<"fetch raised", Ymd(o[2])>>)
    /\ run_pc' = "aborted"
    /\ UNCHANGED <<mirror_dir, mirror_keys, malformed, cache, tw_start,
                   tw_files, twelve_month_list, tm_pos, nem_MW_df_list,
                   prev_df_list, runs, fetches, work, prev_work>>
    /\ UNCHANGED notCache

\* The archive was obtained and parse_csvfile raises on one of its
\* payloads: the run ends in load_nem_data_file, before the dump.
ParseRaises ==
    /\ run_pc = "load"
    /\ tm_pos < Len(twelve_month_list)
    /\ LET o == twelve_month_list[tm_pos + 1]
           k == Ymd(o[2])
           remote == o[2].tier = "rz"
       IN  /\ o[1]
           /\ k \in malformed
           /\ fetches' = [fetches EXCEPT ![k] = IF remote THEN @ + 1 ELSE @]
           /\ work' = [work EXCEPT ![k] =
                          @ \cup (IF remote THEN {"fetch"} ELSE {})
                            \cup {"parse raised"}]
           /\ events' = events
                  \o (IF remote THEN <<<<"fetch", k>>>> ELSE <<>>)
                  \o <<<<"parse raised", k>>>>
    /\ run_pc' = "aborted"
    /\ UNCHANGED <<mirror_dir, mirror_keys, malformed, cache, tw_start,
                   tw_files, twelve_month_list, tm_pos, nem_MW_df_list,
                   prev_df_list, runs, prev_work>>
    /\ UNCHANGED notCache

\* "return nem_MW_df_list": the run is over.
ReturnDfList ==
    /\ run_pc = "load"
    /\ tm_pos = Len(twelve_month_list)
    /\ run_pc' = "complete"
    /\ UNCHANGED <<mirror_dir, mirror_keys, malformed, cache, tw_start,
                   tw_files, twelve_month_list, tm_pos, nem_MW_df_list,
                   prev_df_list, runs, fetches, work, prev_work, events>>
    /\ UNCHANGED notCache

-----------------------------------------------------------------------------
(* main: one run from the window of twelve months to the saved tally, by   *)
(* the periods of the two feeds and the shape of the frames.               *)

\* MINUTES_PER_DAY = 24 * 60
MINUTES_PER_DAY == 24 * 60

\* days_per_file
DaysPerFile(feed) ==
    IntOf(INTERVALS_PER_FILE(feed) * MINUTES_PER_INTERVAL(feed), MINUTES_PER_DAY)

\* (b - a).days
DaysBetween(a, b) == ToOrdinal(b) - ToOrdinal(a)

\* number_of_files
NumberOfFiles(feed, start, end) ==
    IntOf(DaysBetween(start, end), DaysPerFile(feed))

RECURSIVE PlusDays(_, _)
\* d + timedelta(days=k) for k >= 0, a month at a time.
PlusDays(d, k) ==
    IF d.day + k <= DaysInMonth(d.year, d.month)
    THEN Date(d.year, d.month, d.day + k)
    ELSE PlusDays(IF d.month < 12 THEN Date(d.year, d.month + 1, 1)
                  ELSE Date(d.year + 1, 1, 1),
                  k - (DaysInMonth(d.year, d.month) - d.day + 1))

\* self.filelist of a feed whose server lists every period from `first` to
\* `last`: one ZIP tuple per period.
FileList(feed, first, last) ==
    LET step == DaysPerFile(feed)
        n == DaysBetween(dateof(first), dateof(last)) \div step + 1
    IN  [i \in 1..n |->
            <<TRUE, Path("rz", Yyyymmdd(PlusDays(dateof(first), (i - 1) * step)))>>]

\* The order of str.__lt__ on the column names the model draws.
IdOrder == <<"BATT1", "GEN1", "NSW1", "QLD1", "SA1", "TAS1", "VIC1", "WIND1">>

\* a < b on these names
IdLess(a, b) == ListIndex(IdOrder, a) < ListIndex(IdOrder, b)

\* list(set(...)): the members of a set as a list.  The order is the one
\* the build gives and differs from run to run, so every order is one the
\* program can see.
ListsOfSet(S) ==
    {list \in [1..Cardinality(S) -> S] :
        \A x \in S : \E i \in DOMAIN list : list[i] = x}

RECURSIVE SortIds(_)
\* list.sort(): ascending, every item kept.
SortIds(list) ==
    IF list = <<>> THEN <<>>
    ELSE LET i == CHOOSE j \in DOMAIN list :
                      \A k \in DOMAIN list : ~IdLess(list[k], list[j])
             rest == [k \in 1..(Len(list) - 1) |->
                         IF k < i THEN list[k] ELSE list[k + 1]]
         IN  <<list[i]>> \o SortIds(rest)

\* The channel list of the i-th daily matrix: load.duid_list, the channels
\* in the order their rows came.
AxesOf(axes, i) == axes[((i - 1) % Len(axes)) + 1]

\* set([duid for item in ds.nem_MW_df_list for duid in item.axes[1]]) over
\* the n daily matrices that were loaded
LoadedDuids(axes, n) ==
    UNION {{AxesOf(axes, i)[j] : j \in DOMAIN AxesOf(axes, i)} : i \in 1..n}

\* all_sorted_ids of build_df_five_minute, from the list that
\* list(set(...)) gave
all_sorted_ids(listed) == SortIds(listed \o REGION_IDS)

\* periods of build_df_five_minute
Periods(start, end) == DaysBetween(start, end) * INTERVALS_PER_FILE("DispatchSCADA")

\* first_row of the matrix of a daily file
FirstRow(start, file) ==
    DaysBetween(start, dateof(Ymd(file[2]))) * INTERVALS_PER_FILE("DispatchSCADA")

\* df.index.get_loc(stamp) on the concatenated weekly matrices, for the
\* stamp 00:00 of the day d; None when no row carries it (KeyError).
GetLoc(list, d) ==
    LET feed == "RooftopPV"
        Offset(j) == DaysBetween(dateof(Ymd(list[j][2])), d) * MINUTES_PER_DAY
                        - BEGIN_MINUTE(feed)
        hits == {j \in DOMAIN list :
                    /\ Offset(j) >= 0
                    /\ Offset(j) % MINUTES_PER_INTERVAL(feed) = 0
                    /\ Offset(j) \div MINUTES_PER_INTERVAL(feed)
                           < INTERVALS_PER_FILE(feed)}
    IN  IF hits = {} THEN None
        ELSE LET j == CHOOSE h \in hits : TRUE
             IN  (j - 1) * INTERVALS_PER_FILE(feed)
                    + Offset(j) \div MINUTES_PER_INTERVAL(feed)

\* The cells that are not 0 of the daily matrix with the channel list
\* `axes`, as <<interval, channel, power>>: one in its first row and one
\* in its last, or none.
DailyCells(axes, power) ==
    IF power
    THEN {<<0, axes[1], R(50)>>,
          <<INTERVALS_PER_FILE("DispatchSCADA") - 1, axes[Len(axes)], <<15, 2>>>>}
    ELSE {}

\* The cells that are not 0 of a weekly matrix, as <<interval, region,
\* power>>: two samples of one region that follow each other at 12:00 and
\* 12:30 of the Sunday, and one sample of another region between zeros;
\* or none.
WeeklyCells(power) ==
    IF power
    THEN {<<168, REGION_IDS[1], R(10)>>, <<169, REGION_IDS[1], R(16)>>,
          <<169, REGION_IDS[5], R(4)>>}
    ELSE {}

\* The loop of build_df_five_minute over ds.nem_MW_df_list: the cells
\* all_data_MW[first_row + i, col] = power it assigns, as
\* <<row, col, power>>.
FillCells(start, files, axes, power, ids) ==
    UNION {{<<FirstRow(start, files[n]) + cell[1],
              ListIndex(ids, cell[2]), cell[3]>> :
               cell \in DailyCells(AxesOf(axes, n), power)} :
           n \in DOMAIN files}

\* num_data_points of build_df_five_minute: one for every power that is
\* not 0 of every matrix.
FillCount(files, axes, power) ==
    Cardinality(UNION {{<<n, cell>> :
                           cell \in DailyCells(AxesOf(axes, n), power)} :
                       n \in DOMAIN files})

\* A frame of main is held by what was assigned to it.  `cells` are the
\* cells assigned one by one, as <<row, column, value>>, rows and columns
\* counted from 0.  `runs` are the stretches of rows start .. end - 1 that
\* repair assigned, row start + j holding from + j * delta.  A cell of
\* `cells` that lies in a stretch was assigned after it.  Every other cell
\* is the 0.0 of the allocation.
NoFrame == [periods |-> 0, start_minute |-> 0, freq |-> 0, columns |-> <<>>,
            cells |-> {}, runs |-> {}, num_data_points |-> 0]

\* rooftop_pv.df_thirty_minute: the number of its rows, its cells that are
\* not 0 as <<row, region, power>>, and rooftop_pv.num_data_points.
NoThirty == [rows |-> 0, cells |-> {}, num_data_points |-> 0]

\* a * k
RTimesInt(a, k) == Norm(a[1] * k, a[2])

\* zeros(c), one row
ZeroRow(c) == [k \in 1..c |-> Zero]

\* df.iloc[r, :] of a frame, r counted from 0
FrameRow(g, r) ==
    LET own == {c \in g.cells : c[1] = r}
        run == {u \in g.runs : u.start <= r /\ r < u.end}
    IN  [k \in 1..Len(g.columns) |->
            IF \E c \in own : c[2] = k - 1
            THEN (CHOOSE c \in own : c[2] = k - 1)[3]
            ELSE IF run # {}
                 THEN LET u == CHOOSE v \in run : TRUE
                      IN  RAdd(u.from[k], RTimesInt(u.delta[k], r - u.start))
                 ELSE Zero]

\* df.iloc[r, col] of a frame
FrameCell(g, r, col) == FrameRow(g, r)[col + 1]

\* The cells that are not 0 of a row, put at row r.
CellsOfRow(r, row) ==
    {<<r, k - 1, row[k]>> : k \in {j \in DOMAIN row : row[j] # Zero}}

\* repair_missing_periods on a frame as build_df_five_minute returned it,
\* one call of repair for every stretch of rows whose sum is below two_GW.
\* A row without a cell sums to 0, so the rows that are not below are among
\* the rows with cells.  A stretch that a valid row ends is interpolated
\* between row start - 1 and row end, or filled with row end when it starts
\* the frame; the stretch that ends the frame is filled with row start - 1,
\* which is the last row of the frame when the stretch starts at row 0.
\* The in-place += of the interpolation leaves row start - 1 with the
\* values of row end when iloc gave a view of the frame.
RepairFrame(g, view) ==
    LET n == g.periods
        width == Len(g.columns)
        valid == {r \in {c[1] : c \in g.cells} :
                     ~BelowThreshold(RowSumGW(FrameRow(g, r)))}
        starts == {s \in {0} \cup {v + 1 : v \in valid} :
                      s < n /\ s \notin valid}
        Bounded(s) == \E v \in valid : v > s
        EndOf(s) == IF Bounded(s)
                    THEN CHOOSE v \in valid :
                             v > s /\ \A w \in valid : w > s => v <= w
                    ELSE n
        Prior(s) == IF Bounded(s) THEN PriorOfBounded(s, EndOf(s))
                    ELSE s - 1
        Post(s) == IF Bounded(s) THEN EndOf(s) ELSE s - 1
        Iloc(i) == IF i >= 0 THEN i ELSE n + i
        RunOf(s) ==
            [start |-> s, end |-> EndOf(s),
             from |-> FrameRow(g, Iloc(Prior(s))),
             delta |-> IF Prior(s) = Post(s) THEN ZeroRow(width)
                       ELSE RowDivInt(RowSub(FrameRow(g, Iloc(Post(s))),
                                             FrameRow(g, Iloc(Prior(s)))),
                                      EndOf(s) - s)]
        moved == IF view THEN {s \in starts : Prior(s) # Post(s)} ELSE {}
    IN  [g EXCEPT
            !.cells = {c \in g.cells :
                          c[1] \in valid /\ c[1] + 1 \notin moved}
                      \cup UNION {CellsOfRow(s - 1, FrameRow(g, EndOf(s))) :
                                      s \in moved},
            !.runs = {RunOf(s) : s \in starts}]

RECURSIVE YAfter(_, _, _)
\* y after i times "y += dy"
YAfter(y, dy, i) == IF i = 0 THEN y ELSE YAfter(RAdd(y, dy), dy, i - 1)

\* rtdf[region_id].iloc[k], k counted from 0
SampleAt(series, region, k) ==
    IF \E c \in series.cells : c[1] = k /\ c[2] = region
    THEN (CHOOSE c \in series.cells : c[1] = k /\ c[2] = region)[3]
    ELSE Zero

\* The number of passes of "for row6 in range(0, len(nwdf.axes[0]) - 1, 6)"
BlocksOf(rows) == (rows - 1 + 5) \div 6

\* The cells add_rooftop_solar_data assigns for one region when the
\* iterator hands out `taken` samples after the first: the six rows of
\* every block whose start_power and end_power are both not 0.
SolarCells(series, columns, region, taken) ==
    LET dst_col == ListIndex(columns, region)
        blocks == {c[1] : c \in {d \in series.cells :
                                    /\ d[2] = region
                                    /\ d[3] # Zero
                                    /\ d[1] < taken
                                    /\ SampleAt(series, region, d[1] + 1) # Zero}}
    IN  UNION {LET start_power == SampleAt(series, region, k)
                   end_power == SampleAt(series, region, k + 1)
               IN  {<<6 * k + i, dst_col,
                      YAfter(start_power, Dy(start_power, end_power), i)>> :
                        i \in 0..5} :
               k \in blocks}

\* cells, with the cells of `written` in place of those at the same row
\* and column
Overwrite(cells, written) ==
    {c \in cells : ~\E w \in written : w[1] = c[1] /\ w[2] = c[2]}
    \cup written

\* The rows of a frame whose values are their own: the rows with a cell
\* assigned by itself and the rows of the interpolated stretches.
OwnRows(g) ==
    {c[1] : c \in g.cells}
    \cup UNION {u.start..(u.end - 1) :
                   u \in {v \in g.runs : v.delta # ZeroRow(Len(v.delta))}}

\* The loops of build_cat_and_in_out_dfs over one row of the frame.
TallyOfRow(columns, row, num_cat, catidx) ==
    TallyDuids([cat_MW |-> zeros(1, num_cat * 2),
                in_out_MW |-> zeros(Len(columns), 3),
                unknown_duids |-> <<>>],
               num_cat, 0, columns,
               [k \in DOMAIN columns |-> <<row[k]>>],
               catidx)

\* a + k * b on the totals by channel
InOutAdd(a, b, k) ==
    [i \in DOMAIN a |-> [j \in DOMAIN a[i] |->
        RAdd(a[i][j], RTimesInt(b[i][j], k))]]

RECURSIVE InOutSum(_, _)
\* The totals by channel over kinds of rows, each <<what the rows hold,
\* the totals of one such row, the number of the rows>>.
InOutSum(kinds, width) ==
    IF kinds = {} THEN zeros(width, 3)
    ELSE LET kind == CHOOSE k \in kinds : TRUE
         IN  InOutAdd(InOutSum(kinds \ {kind}, width), kind[2], kind[3])

\* build_cat_and_in_out_dfs on the frame g: every row of a filled stretch
\* tallies as the row it was filled with, every row of its own by its own
\* values, and a row of zeros adds nothing.
TallyFrame(g, cats, catidx) ==
    LET num_cat == Len(cats) + 1
        width == Len(g.columns)
        row_count == g.periods
        unknown == TallyOfRow(g.columns, ZeroRow(width), num_cat,
                              catidx).unknown_duids
        some_unknown == Len(unknown) > 0
        Tally(row) == TallyOfRow(g.columns, row, num_cat, catidx)
        CatRow(row) ==
            IF some_unknown THEN Tally(row).cat_MW[1]
            ELSE DropUnknown(Tally(row).cat_MW, num_cat)[1]
        own == {<<r, FrameRow(g, r)>> : r \in OwnRows(g)}
        filled == {u \in g.runs : u.delta = ZeroRow(Len(u.delta))}
        Inside(u) == {p \in own : u.start <= p[1] /\ p[1] < u.end}
        kinds == {<<<<"row", row>>, Tally(row).in_out_MW,
                    Cardinality({p \in own : p[2] = row})>> :
                      row \in {p[2] : p \in own}}
                 \cup {<<<<"run", u.start>>, Tally(u.from).in_out_MW,
                         u.end - u.start - Cardinality(Inside(u))>> :
                           u \in filled}
        in_out_MW == Averages(InOutSum(kinds, width), row_count)
    IN  [unknown_duids |-> unknown,
         df_categories |->
             [columns |-> Columns(IF some_unknown
                                  THEN Append(cats, "Unknown") ELSE cats),
              periods |-> row_count,
              cells |-> UNION {LET row == CatRow(p[2])
                               IN  {<<p[1], k - 1, row[k]>> :
                                       k \in DOMAIN row} : p \in own},
              runs |-> {[start |-> u.start, end |-> u.end,
                         from |-> CatRow(u.from),
                         delta |-> ZeroRow(Len(CatRow(u.from)))] :
                            u \in filled}],
         df_in_out |-> Turnaround(in_out_MW, row_count)]

\* No PKL file of either feed in data_dir.
NoPklFiles == [feed \in Feeds |-> {}]

\* The periods of the ZIP tuples of a list: load_nem_data dumps the matrix
\* of each to its PKL file.
DumpedPeriods(list) ==
    {Ymd(list[i][2]) : i \in {j \in DOMAIN list : list[j][1]}}

IdlePipe ==
    /\ ds_axes = <<>>
    /\ ds_power = FALSE
    /\ rt_power = FALSE
    /\ ds_twelve = <<>>
    /\ rt_twelve = <<>>
    /\ pkl_files = NoPklFiles
    /\ grid = NoFrame
    /\ thirty = NoThirty
    /\ pipe_error = "none"
    /\ pipe_pc = "idle"

\* The channel lists the daily matrices alternate between.  A channel is
\* whatever the DUID field of a row holds: in the last choice it is the
\* name of a region.
AxesChoices ==
    {<<<<"GEN1", "BATT1">>>>,
     <<<<"WIND1">>, <<"GEN1", "WIND1">>>>,
     <<<<"BATT1">>, <<"WIND1", "GEN1">>>>,
     <<<<"NSW1", "GEN1">>>>}

\* The last daily files drawn: the days around the end of February 2024.
PipeDayLasts ==
    {Yyyymmdd(AddDays(Date(2024, 2, 27), i)) : i \in 0..MaxEndDays}

\* "DUID categories.csv" next to the program, by the rows after its header
\* row: every channel and every region in it; or two of the channels; or a
\* row of two fields; or no such file.
DuidCategoryFiles ==
    {[exists |-> TRUE,
      rows |-> <<<<"BATT1", "Battery", "y">>, <<"GEN1", "Gas", "n">>,
                 <<"WIND1", "Wind", "n">>>>
               \o [k \in DOMAIN REGION_IDS |->
                      <<REGION_IDS[k], "Rooftop", "n">>]],
     [exists |-> TRUE,
      rows |-> <<<<"BATT1", "Battery", "n">>, <<"GEN1", "Battery", "n">>>>],
     [exists |-> TRUE, rows |-> <<<<"BATT1", "Battery">>>>],
     [exists |-> FALSE, rows |-> <<>>]}

\* The file lists of the two feeds as select_files left them: the daily
\* list starts before the window or in the middle of it, and so does the
\* weekly list, whose files carry Thursdays.  data_dir holds no PKL file.
InitPipe ==
    /\ day_last \in PipeDayLasts
    /\ week_last \in {20240222, 20240229}
    /\ day_first \in {20230101, 20230601}
    /\ week_first \in {20221229, 20230601}
    /\ ds_start = NoDate /\ ds_end = NoDate
    /\ rt_start = NoDate /\ rt_end = NoDate
    /\ warned = FALSE
    /\ win_pc = "calc"
    /\ ds_axes \in AxesChoices
    /\ ds_power \in BOOLEAN
    /\ rt_power \in BOOLEAN
    /\ ds_twelve = <<>>
    /\ rt_twelve = <<>>
    /\ pkl_files = NoPklFiles
    /\ grid = NoFrame
    /\ thirty = NoThirty
    /\ pipe_error = "none"
    /\ pipe_pc = "load"

\* NEMWeb.__init__ after the window: build_twelve_month_list and
\* load_nem_data of both feeds, every file loading without error and the
\* matrix of every ZIP file dumped to its PKL file.
LoadFeeds ==
    /\ win_pc = "done"
    /\ pipe_pc = "load"
    /\ ds_twelve' = build_twelve_month_list(
                        FileList("DispatchSCADA", day_first, day_last),
                        Yyyymmdd(ds_start),
                        NumberOfFiles("DispatchSCADA", ds_start, ds_end))
    /\ rt_twelve' = build_twelve_month_list(
                        FileList("RooftopPV", week_first, week_last),
                        Yyyymmdd(rt_start),
                        NumberOfFiles("RooftopPV", rt_start, rt_end))
    /\ pkl_files' = [feed \in Feeds |->
                        pkl_files[feed]
                        \cup DumpedPeriods(IF feed = "DispatchSCADA"
                                           THEN ds_twelve' ELSE rt_twelve')]
    /\ pipe_pc' = "assemble"
    /\ UNCHANGED <<ds_axes, ds_power, rt_power, grid, thirty, pipe_error>>
    /\ UNCHANGED notPipe

\* build_df_five_minute: the frame of zeros, then the cells that are not 0
\* of every daily matrix; a row at or beyond the last raises IndexError.
BuildDfFiveMinute ==
    /\ pipe_pc = "assemble"
    /\ \E listed \in ListsOfSet(LoadedDuids(ds_axes, Len(ds_twelve))) :
         LET periods == Periods(ds_start, ds_end)
             columns == all_sorted_ids(listed)
             cells == FillCells(ds_start, ds_twelve, ds_axes, ds_power,
                                columns)
         IN  IF \E cell \in cells : cell[1] >= periods
             THEN /\ pipe_error' = "IndexError"
                  /\ pipe_pc' = "aborted"
                  /\ grid' = grid
             ELSE /\ grid' = [periods |-> periods,
                              start_minute |-> BEGIN_MINUTE("DispatchSCADA"),
                              freq |-> MINUTES_PER_INTERVAL("DispatchSCADA"),
                              columns |-> columns,
                              cells |-> cells,
                              runs |-> {},
                              num_data_points |->
                                  FillCount(ds_twelve, ds_axes, ds_power)]
                  /\ pipe_pc' = "repair"
                  /\ pipe_error' = pipe_error
    /\ UNCHANGED <<ds_axes, ds_power, rt_power, ds_twelve, rt_twelve,
                   pkl_files, thirty>>
    /\ UNCHANGED notPipe

\* main: row_sum_5min_GW = df_five_minute.sum(1) / 1000, then
\* repair_missing_periods on the frame.  Whether a row taken with iloc is a
\* view of the frame depends on the pandas the program runs on.
MainRepair ==
    /\ pipe_pc = "repair"
    /\ \E view \in BOOLEAN : grid' = RepairFrame(grid, view)
    /\ pipe_pc' = "thirty"
    /\ UNCHANGED <<ds_axes, ds_power, rt_power, ds_twelve, rt_twelve,
                   pkl_files, thirty, pipe_error>>
    /\ UNCHANGED notPipe

\* build_df_thirty_minute(start_date): the rows of the weekly matrices from
\* 00:00 of the window's first day to 00:00 of the same day a year later.
BuildDfThirtyMinute ==
    /\ pipe_pc = "thirty"
    /\ LET start_date == ds_start
           end_date == Date(start_date.year + 1, start_date.month, 1)
           start_row == GetLoc(rt_twelve, start_date)
           end_row == GetLoc(rt_twelve, end_date)
           df == UNION {{<<(j - 1) * INTERVALS_PER_FILE("RooftopPV") + c[1],
                           c[2], c[3]>> : c \in WeeklyCells(rt_power)} :
                        j \in DOMAIN rt_twelve}
       IN  IF start_row = None \/ end_row = None
           THEN /\ pipe_error' = "KeyError"
                /\ pipe_pc' = "aborted"
                /\ thirty' = thirty
           ELSE /\ thirty' =
                     [rows |-> end_row + 1 - start_row,
                      cells |-> {<<c[1] - start_row, c[2], c[3]>> :
                                    c \in {d \in df : /\ d[1] >= start_row
                                                      /\ d[1] <= end_row}},
                      num_data_points |-> 0]
                /\ pipe_pc' = "solar"
                /\ pipe_error' = pipe_error
    /\ UNCHANGED <<ds_axes, ds_power, rt_power, ds_twelve, rt_twelve,
                   pkl_files, grid>>
    /\ UNCHANGED notPipe

\* add_rooftop_solar_data: for every region one next(rt_iter) before the
\* loop and one for every sixth row of the frame, and the six cells of
\* every block between two samples that are not 0.  next() on a spent
\* iterator raises in the first region, after the blocks the samples
\* reached were written.  The rows of the frame are a multiple of 6, so
\* every row written is a row of the frame.
MainAddRooftop ==
    /\ pipe_pc = "solar"
    /\ LET blocks == BlocksOf(grid.periods)
           Written(regions, taken) ==
               UNION {SolarCells(thirty, grid.columns, REGION_IDS[k], taken) :
                         k \in regions}
       IN  IF thirty.rows < 1 + blocks
           THEN /\ pipe_error' = "StopIteration"
                /\ pipe_pc' = "aborted"
                /\ grid' = [grid EXCEPT !.cells =
                               Overwrite(@, Written({1}, thirty.rows - 1))]
                /\ thirty' = thirty
           ELSE /\ pipe_pc' = "tally"
                /\ pipe_error' = pipe_error
                /\ grid' = [grid EXCEPT !.cells =
                               Overwrite(@, Written(DOMAIN REGION_IDS, blocks))]
                /\ thirty' = [thirty EXCEPT !.num_data_points =
                                 Cardinality({c \in thirty.cells :
                                     c[1] <= blocks /\ c[3] # Zero})]
    /\ UNCHANGED <<ds_axes, ds_power, rt_power, ds_twelve, rt_twelve,
                   pkl_files>>
    /\ UNCHANGED notPipe

\* What the tally of main leaves alone.
notTally ==
    <<mergeVars, windowVars, repairVars, solarVars, loadVars, cacheVars,
      listingVars>>

\* main: read_duid_categories_csv, build_cat_and_in_out_dfs and
\* save_in_out_and_cat.  open() raises when the file is not there, and
\* o[2] when a row has fewer than three fields, before anything is
\* assigned; to_excel raises when the file cannot be written, after the
\* two frames were assigned.
MainTally ==
    /\ pipe_pc = "tally"
    /\ \E file \in DuidCategoryFiles, saved \in BOOLEAN :
         IF ~file.exists \/ \E i \in DOMAIN file.rows : Len(file.rows[i]) < 3
         THEN /\ pipe_error' = IF file.exists THEN "IndexError"
                               ELSE "FileNotFoundError"
              /\ pipe_pc' = "aborted"
              /\ UNCHANGED <<cat_list, duid_catidx, unknown_duids,
                             df_categories, df_in_out, agg_pc>>
         ELSE LET o == read_duid_categories_csv(file.rows)
                  t == TallyFrame(grid, o.cat_list, o.duid_catidx)
              IN  /\ cat_list' = o.cat_list
                  /\ duid_catidx' = o.duid_catidx
                  /\ unknown_duids' = t.unknown_duids
                  /\ df_categories' = t.df_categories
                  /\ df_in_out' = t.df_in_out
                  /\ agg_pc' = "done"
                  /\ pipe_error' = IF saved THEN pipe_error ELSE "OSError"
                  /\ pipe_pc' = IF saved THEN "complete" ELSE "aborted"
    /\ UNCHANGED <<ds_axes, ds_power, rt_power, ds_twelve, rt_twelve,
                   pkl_files, grid, thirty>>
    /\ UNCHANGED <<agg_duids, agg_df>>
    /\ UNCHANGED notTally

-----------------------------------------------------------------------------
(* build_file_lists: the remote listing is sorted and the entries of a      *)
(* different length are popped from its end.                                *)

\* A file name is a sequence of characters; a character is its code point.
\* The names of a listing have two lengths and two characters.
NameChars == {1, 2}

NameLens == {1, 2}

NamesOfLen(n) == [1..n -> NameChars]

Names == UNION {NamesOfLen(n) : n \in NameLens}

\* The listings build_url_list can return: the hrefs of the page, in the
\* order of the page.
RECURSIVE ListingsOfLen(_)
ListingsOfLen(n) ==
    IF n = 0 THEN {<<>>}
    ELSE {Append(l, name) : l \in ListingsOfLen(n - 1), name \in Names}

Listings == UNION {ListingsOfLen(n) : n \in 0..MaxUrls}

\* str.__lt__: the first differing character decides, and a proper prefix
\* comes first.
StrLess(a, b) ==
    \E i \in 1..(Len(b)) :
        /\ \A j \in 1..(i - 1) : j <= Len(a) /\ a[j] = b[j]
        /\ \/ i > Len(a)
           \/ a[i] < b[i]

\* list.sort(): ascending and stable. The place of an entry is the number
\* of entries that are less than it or equal to it and before it.
SortPlace(list, i) ==
    Cardinality({j \in 1..Len(list) :
                    \/ StrLess(list[j], list[i])
                    \/ list[j] = list[i] /\ j < i}) + 1

ListSort(list) ==
    [k \in 1..Len(list) |->
        list[CHOOSE i \in 1..Len(list) : SortPlace(list, i) = k]]

\* "valid_len = len(rzlist[0])"
ValidLenOfLast(list) == Len(list[Len(list)])

ValidLen(list) == Len(list[1])

\* "len(rzlist[-1]) != valid_len"
TrimCondition(list, len) == Len(list[Len(list)]) # len

IdleListing ==
    /\ url_list = <<>>
    /\ bf_rzlist = <<>>
    /\ valid_len = 0
    /\ bf_pc = "idle"

InitListing ==
    /\ url_list = <<>>
    /\ bf_rzlist = <<>>
    /\ valid_len = 0
    /\ bf_pc = "fetch"

\* "rzlist = self.build_url_list(webdir)": the page lists any files.
BuildUrlList ==
    /\ bf_pc = "fetch"
    /\ url_list' \in Listings
    /\ bf_pc' = "list"
    /\ UNCHANGED <<bf_rzlist, valid_len>>
    /\ UNCHANGED notListing

\* "rzlist.sort()" and
\* "valid_len = len(rzlist[0])" on a listing that has an entry.
SortListing ==
    /\ bf_pc = "list"
    /\ url_list # <<>>
    /\ bf_rzlist' = ListSort(url_list)
    /\ valid_len' = ValidLen(ListSort(url_list))
    /\ bf_pc' = "trim"
    /\ UNCHANGED url_list
    /\ UNCHANGED notListing

\* rzlist[0] or rzlist[-1] of an empty list raises IndexError.
ListingIndexError ==
    /\ IF bf_pc = "list" THEN url_list = <<>>
       ELSE bf_pc = "trim" /\ bf_rzlist = <<>>
    /\ bf_rzlist' = <<>>
    /\ bf_pc' = "aborted"
    /\ UNCHANGED <<url_list, valid_len>>
    /\ UNCHANGED notListing

\* One iteration of the while loop: "rzlist.pop()".
TrimPop ==
    /\ bf_pc = "trim"
    /\ bf_rzlist # <<>>
    /\ TrimCondition(bf_rzlist, valid_len)
    /\ bf_rzlist' = SubSeq(bf_rzlist, 1, Len(bf_rzlist) - 1)
    /\ UNCHANGED <<url_list, valid_len, bf_pc>>
    /\ UNCHANGED notListing

\* The loop ends: "self.remote_zipfile_list = rzlist".
TrimEnd ==
    /\ bf_pc = "trim"
    /\ bf_rzlist # <<>>
    /\ ~TrimCondition(bf_rzlist, valid_len)
    /\ bf_pc' = "done"
    /\ UNCHANGED <<url_list, bf_rzlist, valid_len>>
    /\ UNCHANGED notListing


-----------------------------------------------------------------------------
(* The specifications.                                                     *)

InitMerge ==
    /\ InitSelect
    /\ IdleWindow /\ IdleRepair /\ IdleSolar /\ IdleAgg
    /\ IdleLoad /\ IdleCache /\ IdlePipe /\ IdleListing

NextMerge == SelectIter \/ SelectBreak

SpecMerge == InitMerge /\ [][NextMerge]_vars

\* select_files runs its loop to the end: nothing else is scheduled.
SpecMergeFair == SpecMerge /\ WF_vars(NextMerge)

InitWin ==
    /\ InitWindow
    /\ IdleMerge /\ IdleRepair /\ IdleSolar /\ IdleAgg
    /\ IdleLoad /\ IdleCache /\ IdlePipe /\ IdleListing

NextWindow == CalculateMostRecentFullTwelveMonths

SpecWindow == InitWin /\ [][NextWindow]_vars

InitRep ==
    /\ InitRepair
    /\ IdleMerge /\ IdleWindow /\ IdleSolar /\ IdleAgg
    /\ IdleLoad /\ IdleCache /\ IdlePipe /\ IdleListing

NextRepair == RepairMissingPeriods

SpecRepair == InitRep /\ [][NextRepair]_vars

InitSol ==
    /\ InitSolar
    /\ IdleMerge /\ IdleWindow /\ IdleRepair /\ IdleAgg
    /\ IdleLoad /\ IdleCache /\ IdlePipe /\ IdleListing

NextSolar == AddRooftopSolarData

SpecSolar == InitSol /\ [][NextSolar]_vars

InitAggregate ==
    /\ InitAgg
    /\ IdleMerge /\ IdleWindow /\ IdleRepair /\ IdleSolar
    /\ IdleLoad /\ IdleCache /\ IdlePipe /\ IdleListing

NextAgg == BuildCatAndInOutDfs

SpecAgg == InitAggregate /\ [][NextAgg]_vars

InitLoad ==
    /\ InitLoadFile
    /\ IdleMerge /\ IdleWindow /\ IdleRepair /\ IdleSolar
    /\ IdleAgg /\ IdleCache /\ IdlePipe /\ IdleListing

NextLoad == LoadNemDataFile

SpecLoad == InitLoad /\ [][NextLoad]_vars

InitCache ==
    /\ InitRuns
    /\ IdleMerge /\ IdleWindow /\ IdleRepair /\ IdleSolar
    /\ IdleAgg /\ IdleLoad /\ IdlePipe /\ IdleListing

NextCache ==
    \/ BuildFileListsRaises
    \/ StartRun
    \/ SelectIter
    \/ SelectBreak
    \/ BuildTwelveMonthList
    \/ LoadPkl
    \/ LoadPklRaises
    \/ LoadZip
    \/ DumpRaises
    \/ FetchFails
    \/ ParseRaises
    \/ ReturnDfList

SpecCache == InitCache /\ [][NextCache]_vars

InitMain ==
    /\ InitPipe
    /\ IdleMerge /\ IdleRepair /\ IdleSolar /\ IdleAgg
    /\ IdleLoad /\ IdleCache /\ IdleListing

NextMain ==
    \/ CalculateMostRecentFullTwelveMonths
    \/ LoadFeeds
    \/ BuildDfFiveMinute
    \/ MainRepair
    \/ BuildDfThirtyMinute
    \/ MainAddRooftop
    \/ MainTally

SpecMain == InitMain /\ [][NextMain]_vars


\* The frame from its assembly to the end of main, with the repair and
\* the rooftop interpolation on grids of a few rows.
InitFrame == InitMain \/ InitRep \/ InitSol

NextFrame == NextMain \/ NextRepair \/ NextSolar

SpecFrame == InitFrame /\ [][NextFrame]_vars


InitList ==
    /\ InitListing
    /\ IdleMerge /\ IdleWindow /\ IdleRepair /\ IdleSolar
    /\ IdleAgg /\ IdleLoad /\ IdleCache /\ IdlePipe

NextListing ==
    \/ BuildUrlList
    \/ SortListing
    \/ ListingIndexError
    \/ TrimPop
    \/ TrimEnd

SpecListing == InitList /\ [][NextListing]_vars

\* Once the page has arrived build_file_lists runs on: nothing else is
\* scheduled.
AfterFetch == SortListing \/ ListingIndexError \/ TrimPop \/ TrimEnd

SpecListingFair == SpecListing /\ WF_vars(AfterFetch)


Spec == SpecMerge

-----------------------------------------------------------------------------
(* Properties of select_files.                                             *)

KeysOf(list) == {Ymd(list[i]) : i \in DOMAIN list}

AllKeys == KeysOf(lplist) \cup KeysOf(lzlist) \cup KeysOf(rzlist)

FileKeys == {Ymd(filelist[i][2]) : i \in DOMAIN filelist}

EntriesFor(k) == {i \in DOMAIN filelist : Ymd(filelist[i][2]) = k}

TiersOf(k) ==
    {t \in {"lp", "lz", "rz"} :
        k \in KeysOf(CASE t = "lp" -> lplist [] t = "lz" -> lzlist [] t = "rz" -> rzlist)}

\* cache (PKL) before mirror (local ZIP) before remote
BestTier(k) ==
    IF k \in KeysOf(lplist) THEN "lp"
    ELSE IF k \in KeysOf(lzlist) THEN "lz" ELSE "rz"

\* C1: the merged list is strictly ascending by period key, and when the
\* merge has finished every key that two or more of the lists hold has
\* exactly one entry, the one of the highest-priority list that holds it
\* (PKL over local ZIP over remote ZIP).
C1_MergePriority ==
    /\ \A i, j \in DOMAIN filelist :
          i < j => Ymd(filelist[i][2]) < Ymd(filelist[j][2])
    /\ sel_pc = "done" =>
          \A k \in AllKeys :
              Cardinality(TiersOf(k)) >= 2 =>
                  /\ Cardinality(EntriesFor(k)) = 1
                  /\ \A i \in EntriesFor(k) :
                        filelist[i] = <<BestTier(k) # "lp", Path(BestTier(k), k)>>

\* A finished merge in which one key is in all three lists, another only in
\* the two ZIP lists, and a third in one list only.
C1_Witness ==
    /\ sel_pc = "done"
    /\ \E k \in AllKeys : TiersOf(k) = {"lp", "lz", "rz"}
    /\ \E k \in AllKeys : TiersOf(k) = {"lz", "rz"}
    /\ \E k \in AllKeys : Cardinality(TiersOf(k)) = 1

\* C2: select_files terminates; when it has, the keys of the merged list
\* are exactly the keys of the three lists, one descriptor each; and every
\* iteration appends one descriptor and moves on exactly the cursors that
\* stand on the selected key.
C2_MergeCoversUnion ==
    /\ <>(sel_pc = "done")
    /\ [](sel_pc = "done" =>
            /\ FileKeys = AllKeys
            /\ Len(filelist) = Cardinality(AllKeys))
    /\ [][(sel_pc = "select" /\ sel_pc' = "select") =>
            /\ Len(filelist') = Len(filelist) + 1
            /\ LET ymd == Ymd(filelist'[Len(filelist')][2]) IN
                /\ lp' = IF lpflag /\ lp_ymd = ymd THEN lp + 1 ELSE lp
                /\ lz' = IF lzflag /\ lz_ymd = ymd THEN lz + 1 ELSE lz
                /\ rz' = IF rzflag /\ rz_ymd = ymd THEN rz + 1 ELSE rz
                /\ lp' + lz' + rz' > lp + lz + rz]_vars

\* A finished merge of three different non-empty lists that together hold
\* every key, none of them alone.
C2_Witness ==
    /\ sel_pc = "done"
    /\ AllKeys = MergeKeys
    /\ Len(filelist) = MaxKey
    /\ lplist # <<>> /\ lzlist # <<>>
    /\ KeysOf(lplist) # AllKeys /\ KeysOf(lzlist) # AllKeys /\ KeysOf(rzlist) # AllKeys
    /\ KeysOf(lplist) \cap KeysOf(rzlist) # {}

-----------------------------------------------------------------------------
(* Properties of calculate_most_recent_full_twelve_months.                 *)

\* min(last daily period + 1 day, last weekly period + 7 days), as an ordinal
EndLimit ==
    LET d == ToOrdinal(dateof(day_last)) + 1
        w == ToOrdinal(dateof(week_last)) + 7
    IN  IF d < w THEN d ELSE w

\* The first day of the month after the month of date e.
FirstOfNextMonth(e) ==
    IF e.month = 12 THEN Date(e.year + 1, 1, 1) ELSE Date(e.year, e.month + 1, 1)

\* C3: the daily start and end are first days of the same month one year
\* apart; the weekly window contains the daily one, padded by fewer than 7
\* days at each side, and both its boundaries are Thursdays.
C3_WindowAlignment ==
    win_pc = "done" =>
        /\ ds_start.day = 1 /\ ds_end.day = 1
        /\ ds_start.month = ds_end.month
        /\ ds_end.year - ds_start.year = 1
        /\ ToOrdinal(rt_start) <= ToOrdinal(ds_start)
        /\ ToOrdinal(ds_start) - ToOrdinal(rt_start) < 7
        /\ ToOrdinal(rt_end) >= ToOrdinal(ds_end)
        /\ ToOrdinal(rt_end) - ToOrdinal(ds_end) < 7
        /\ Weekday(rt_start) = 3
        /\ Weekday(rt_end) = 3

\* A window whose two ends both needed padding, ending in a leap year.
C3_Witness ==
    /\ win_pc = "done"
    /\ rt_start # ds_start
    /\ rt_end # ds_end
    /\ IsLeap(ds_end.year)

\* C4: the daily end is the latest first of a month that is not after
\* min(last daily period + 1 day, last weekly period + 7 days); so it is
\* not after the day after the last daily period, and when the last weekly
\* period is a Thursday the weekly end is not after that period + 7 days.
C4_LatestFullWindow ==
    win_pc = "done" =>
        /\ ds_end.day = 1
        /\ ToOrdinal(ds_end) <= EndLimit
        /\ ToOrdinal(FirstOfNextMonth(ds_end)) > EndLimit
        /\ ToOrdinal(ds_end) <= ToOrdinal(dateof(day_last)) + 1
        /\ Weekday(dateof(week_last)) = 3 =>
              ToOrdinal(rt_end) <= ToOrdinal(dateof(week_last)) + 7

\* The weekly feed, on a Thursday, ends before the daily feed and in an
\* earlier month, and the end was moved back to the first of that month.
C4_Witness ==
    /\ win_pc = "done"
    /\ Weekday(dateof(week_last)) = 3
    /\ ToOrdinal(dateof(week_last)) + 7 < ToOrdinal(dateof(day_last)) + 1
    /\ AddDays(dateof(day_last), 1).month # ds_end.month
    /\ ToOrdinal(ds_end) < EndLimit

-----------------------------------------------------------------------------
(* Properties of repair_missing_periods. Rows are counted from 0, as in    *)
(* the code: row i of a grid g is g[i + 1].                                *)

NumRows == Len(df_raw)

\* The total of row i before the repair is below 2.0 GW, that is 2000 MW.
GapRow(i) ==
    LET t == SumRow(df_raw[i + 1], Len(df_raw[i + 1])) IN t[1] < 2000 * t[2]

GapRows == {i \in 0..(NumRows - 1) : GapRow(i)}

\* Rows s..e-1 are a gap run: all below the threshold, and neither row s-1
\* nor row e, where the grid has them, is.
GapRun(s, e) ==
    /\ 0 <= s /\ s < e /\ e <= NumRows
    /\ \A i \in s..(e - 1) : GapRow(i)
    /\ s > 0 => ~GapRow(s - 1)
    /\ e < NumRows => ~GapRow(e)

\* a + j * (b - a) / n
Lerp(a, b, j, n) ==
    Norm(a[1] * b[2] * n + j * (b[1] * a[2] - a[1] * b[2]), a[2] * b[2] * n)

\* C5: after the repair, row start+j of an interior gap run [start, end)
\* holds, in every column, v[start-1] + j*(v[end] - v[start-1])/(end-start)
\* of the grid v before the repair.
C5_InteriorGapInterpolated ==
    rep_pc = "done" =>
        \A s \in 1..(NumRows - 1), e \in 1..(NumRows - 1) :
            GapRun(s, e) =>
                \A j \in 0..(e - s - 1), c \in 1..Len(df_raw[1]) :
                    df_MW[s + j + 1][c]
                        = Lerp(df_raw[s][c], df_raw[e + 1][c], j, e - s)

\* An interior run of three rows between two different valid rows was
\* repaired, its first row taking the value of the row before.
C5_Witness ==
    /\ rep_pc = "done"
    /\ \E s \in 1..(NumRows - 1) :
          /\ GapRun(s, s + 3)
          /\ s + 3 < NumRows
          /\ df_raw[s] # df_raw[s + 4]
          /\ df_MW[s + 1] = df_raw[s]
          /\ df_MW[s + 2] # df_raw[s]

\* C6: after the repair every row of a gap run that starts at row 0 and
\* ends at a row end of the grid holds the value row end had before.
C6_LeadingGapFilled ==
    rep_pc = "done" =>
        \A e \in 1..(NumRows - 1) :
            GapRun(0, e) =>
                \A i \in 0..(e - 1) : df_MW[i + 1] = df_raw[e + 1]

\* A leading run of two rows was filled with a value they did not have, and
\* a later run was repaired too.
C6_Witness ==
    /\ rep_pc = "done"
    /\ GapRun(0, 2)
    /\ NumRows > 2
    /\ df_MW[1] # df_raw[1]
    /\ df_MW[1] = df_raw[3]
    /\ \E i \in 3..(NumRows - 1) : GapRow(i)

\* C7, as claimed: every row of a gap run still open at the last row holds
\* the value of row start-1, a row before the run.
C7_TrailingGapFilled ==
    rep_pc = "done" =>
        \A s \in 0..(NumRows - 1) :
            GapRun(s, NumRows) =>
                /\ s >= 1
                /\ \A i \in s..(NumRows - 1) : df_MW[i + 1] = df_raw[s]

\* C8, as claimed: the rows the repair assigns to are exactly the rows
\* whose total was strictly below the threshold, and every other row (a
\* total of exactly 2.0 included, and the rows start-1 and end of every
\* run) is as it was, in every column.
C8_OnlyGapRowsChange ==
    rep_pc = "done" =>
        /\ touched = GapRows
        /\ \A i \in 0..(NumRows - 1) :
              ~GapRow(i) => df_MW[i + 1] = df_raw[i + 1]

-----------------------------------------------------------------------------
(* Properties of add_rooftop_solar_data. Block b (from 0) of a region has  *)
(* the start sample rtdf[r][b + 1], the end sample rtdf[r][b + 2] and the  *)
(* grid rows 6b .. 6b+5, which are nwdf[r][6b + 1] .. nwdf[r][6b + 6].     *)

NumBlocks(r) == Len(rtdf[r]) - 1

V0(r, b) == rtdf[r][b + 1]
V1(r, b) == rtdf[r][b + 2]

\* C9, as claimed: the rows of every block with a non-zero start sample v0
\* hold v0 + i*(v1 - v0)/6, i = 0..5, whatever v1 is, zero included.
C9_BlockInterpolatedAnyEnd ==
    sol_pc = "done" =>
        \A r \in Regions : \A b \in 0..(NumBlocks(r) - 1) :
            V0(r, b) # R(0) =>
                \A i \in 0..5 :
                    nwdf[r][6 * b + i + 1] = Lerp(V0(r, b), V1(r, b), i, 6)

\* C9, amended: the rows of every block with non-zero start and end
\* samples v0 and v1 hold v0 + i*(v1 - v0)/6, i = 0..5; a block with a
\* non-zero start and a zero end sample is not written and stays at zero.
C9_BlockInterpolated ==
    sol_pc = "done" =>
        \A r \in Regions : \A b \in 0..(NumBlocks(r) - 1) :
            V0(r, b) # R(0) =>
                \A i \in 0..5 :
                    nwdf[r][6 * b + i + 1]
                        = IF V1(r, b) # R(0)
                          THEN Lerp(V0(r, b), V1(r, b), i, 6)
                          ELSE R(0)

\* The samples 10 and 16 gave the rows 10, 11, 12, 13, 14, 15, and a block
\* from 16 down to 0 was left at zero.
C9_Witness ==
    /\ sol_pc = "done"
    /\ \E r \in Regions : \E b \in 0..(NumBlocks(r) - 1) :
          /\ V0(r, b) = R(10) /\ V1(r, b) = R(16)
          /\ \A i \in 0..5 : nwdf[r][6 * b + i + 1] = R(10 + i)
          /\ b + 1 < NumBlocks(r)
          /\ V1(r, b + 1) = R(0)
          /\ \A i \in 0..5 : nwdf[r][6 * (b + 1) + i + 1] = R(0)

\* C10: the six rows of every block whose start sample is zero stay at
\* zero, whatever the end sample is.
C10_ZeroStartNotWritten ==
    sol_pc = "done" =>
        \A r \in Regions : \A b \in 0..(NumBlocks(r) - 1) :
            V0(r, b) = R(0) =>
                \A i \in 0..5 : nwdf[r][6 * b + i + 1] = R(0)

\* A block from 0 up to 21 stayed at zero, and the block after it, from 21
\* to 10, was written.
C10_Witness ==
    /\ sol_pc = "done"
    /\ \E r \in Regions : \E b \in 0..(NumBlocks(r) - 1) :
          /\ V0(r, b) = R(0) /\ V1(r, b) = R(21)
          /\ \A i \in 0..5 : nwdf[r][6 * b + i + 1] = R(0)
          /\ b + 1 < NumBlocks(r)
          /\ V1(r, b + 1) = R(10)
          /\ nwdf[r][6 * (b + 1) + 1] = R(21)

-----------------------------------------------------------------------------
(* Properties of build_cat_and_in_out_dfs.                                 *)

AggRowCount == Len(agg_df[1])

AggRows == 1..AggRowCount

\* The columns of the grid, by their place.
Channels == DOMAIN agg_duids

\* The columns whose name no other column of the grid carries.
SingleNamed == {k \in Channels : ~NameTwice(agg_duids, k - 1)}

IsLoad(k) ==
    agg_duids[k] \in DOMAIN duid_catidx /\ duid_catidx[agg_duids[k]][2]

\* The number of categories the tally reports.
NumReported == Len(df_categories.columns) \div 2

\* The category the channel of column k is reported under, as its place
\* among the reported categories: the place of its category in the table,
\* or the place after the categories of the table for a channel that is
\* not in the table.  (Two categories may carry one name: a category that
\* the table calls "Unknown" is not the category made for the channels
\* that are not in the table.)
CategoryOf(k) ==
    IF agg_duids[k] \in DOMAIN duid_catidx
    THEN duid_catidx[agg_duids[k]][1] + 1
    ELSE Len(cat_list) + 1

\* The name of the category at place c.
CategoryName(c) == IF c <= Len(cat_list) THEN cat_list[c] ELSE "Unknown"

\* What the value of column k at row r contributes.
Contribution(k, r) == IF IsLoad(k) THEN RNeg(agg_df[k][r]) ELSE agg_df[k][r]

NegPart(v) == IF RLess(v, Zero) THEN v ELSE Zero

PosPart(v) == IF RLess(Zero, v) THEN v ELSE Zero

RECURSIVE SumSeq(_)
SumSeq(s) == IF s = <<>> THEN Zero ELSE RAdd(s[1], SumSeq(Tail(s)))

\* The negative and the positive contributions of the columns of S to a
\* category at a row.
CategoryNeg(S, cat, r) ==
    SumSeq([k \in Channels |->
               IF k \in S /\ CategoryOf(k) = cat
               THEN NegPart(Contribution(k, r)) ELSE Zero])

CategoryPos(S, cat, r) ==
    SumSeq([k \in Channels |->
               IF k \in S /\ CategoryOf(k) = cat
               THEN PosPart(Contribution(k, r)) ELSE Zero])

\* The negative and the positive total of a column over the rows.
NegTotal(k) == SumSeq([r \in AggRows |-> NegPart(Contribution(k, r))])

PosTotal(k) == SumSeq([r \in AggRows |-> PosPart(Contribution(k, r))])

HasColumn(name) == \E k \in DOMAIN df_categories.columns :
                       df_categories.columns[k] = name

\* The cell of the tally at row r under the column called name.
Cell(name, r) ==
    df_categories.rows[r][ListIndex(df_categories.columns, name) + 1]

UsedCategories == {CategoryOf(k) : k \in Channels}

\* The sign law over the columns of S: the value v of a load counts as -v,
\* the value of any other channel as v; at every row the "-" column of a
\* category holds the sum of the negative contributions of its channels
\* and the "+" column the sum of the positive ones, and the In and Out
\* entries of a channel are its negative and its positive total over the
\* rows (divided by the row count).  The "-" column of the category at
\* place c is column c and carries its name, the "+" column is column c of
\* the second block.
SignLawOver(S) ==
    /\ \A cat \in UsedCategories : \A r \in AggRows :
          /\ df_categories.columns[cat] = "-" \o CategoryName(cat)
          /\ df_categories.columns[NumReported + cat] =
                 "+" \o CategoryName(cat)
          /\ df_categories.rows[r][cat] = CategoryNeg(S, cat, r)
          /\ df_categories.rows[r][NumReported + cat] = CategoryPos(S, cat, r)
    /\ \A k \in S :
          /\ df_in_out[k][1] = RDivInt(NegTotal(k), AggRowCount)
          /\ df_in_out[k][2] = RDivInt(PosTotal(k), AggRowCount)

\* Nothing was tallied for the columns that share their name with another
\* column: In, Out and the ratio are 0.
SharedNamesLeftOut ==
    \A k \in Channels \ SingleNamed : df_in_out[k] = <<Zero, Zero, Zero>>

C11_WitnessSharedName ==
    /\ agg_pc = "done"
    /\ agg_duids = AggDuidsTwice
    /\ IsLoad(1)
    /\ agg_df = <<<<R(4)>>, <<R(4)>>, <<R(0 - 5)>>>>
    /\ unknown_duids = <<"NSW1", "NSW1">>
    /\ df_categories.columns = <<"-Battery", "-Unknown",
                                 "+Battery", "+Unknown">>
    /\ df_categories.rows[1] = <<R(0 - 4), Zero, Zero, Zero>>
    /\ df_in_out[2] = <<Zero, Zero, Zero>>
    /\ df_in_out[3] = <<Zero, Zero, Zero>>

RAbs(a) == IF a[1] < 0 THEN RNeg(a) ELSE a

Missing == {k \in Channels : agg_duids[k] \notin DOMAIN duid_catidx}

\* The categories the tally reports: those of the table, and after them
\* the category made for the channels that are not in the table.
ReportedCats ==
    IF Missing = {} THEN cat_list ELSE Append(cat_list, "Unknown")

\* The table gives some category the name "Unknown".
TableNamesUnknown == \E c \in DOMAIN cat_list : cat_list[c] = "Unknown"

\* Every channel that is not in the table is listed as unknown and, when it
\* is a column of S, tallied without negation in the two columns of the
\* category made for these channels; the columns are "-" and then "+" of
\* every reported category, two for each, and the columns of every
\* category of the table hold the contributions of its own channels
\* among S.
UnknownTallied(S) ==
    /\ \A k \in Channels :
          k \in Missing <=>
              \E u \in DOMAIN unknown_duids : unknown_duids[u] = agg_duids[k]
    /\ Len(unknown_duids) = Cardinality(Missing)
    /\ \A k \in Missing : ~IsLoad(k)
    /\ Missing # {} =>
          \A r \in AggRows :
              /\ df_categories.rows[r][Len(ReportedCats)] =
                    SumSeq([k \in Channels |->
                        IF k \in Missing \cap S
                        THEN NegPart(agg_df[k][r]) ELSE Zero])
              /\ df_categories.rows[r][2 * Len(ReportedCats)] =
                    SumSeq([k \in Channels |->
                        IF k \in Missing \cap S
                        THEN PosPart(agg_df[k][r]) ELSE Zero])
    /\ Len(df_categories.columns) = 2 * Len(ReportedCats)
    /\ \A c \in DOMAIN ReportedCats :
          /\ df_categories.columns[c] = "-" \o ReportedCats[c]
          /\ df_categories.columns[Len(ReportedCats) + c] =
                 "+" \o ReportedCats[c]
    /\ \A r \in AggRows :
          /\ Len(df_categories.rows[r]) = 2 * Len(ReportedCats)
          /\ \A c \in DOMAIN cat_list :
                /\ df_categories.rows[r][c] = CategoryNeg(S, c, r)
                /\ df_categories.rows[r][Len(ReportedCats) + c] =
                       CategoryPos(S, c, r)

\* C13 as it was stated: every channel that is not in the table is listed
\* as unknown and tallied under "Unknown" without negation, the columns
\* are two for every reported category with the values of every category
\* of the table under its own name, and the columns "-Unknown" and
\* "+Unknown" are there exactly when some channel of the grid is not in
\* the table.
C13_UnknownOnlyWhenAbsent ==
    agg_pc = "done" =>
        /\ UnknownTallied(Channels)
        /\ HasColumn("-Unknown") <=> Missing # {}
        /\ HasColumn("+Unknown") <=> Missing # {}

\* The part of C13 as it was stated that a table with a category called
\* "Unknown" refutes by itself, on the grids whose columns all have names
\* of their own: the columns "-Unknown" and "+Unknown" are there exactly
\* when some channel of the grid is not in the table.
C13_UnknownIffAbsent ==
    (agg_pc = "done" /\ SingleNamed = Channels) =>
        /\ HasColumn("-Unknown") <=> Missing # {}
        /\ HasColumn("+Unknown") <=> Missing # {}

\* C13: every channel that is not in the table is listed as unknown and,
\* when no other column of the grid carries its name, is tallied without
\* negation in the columns of the category made for these channels, the
\* last "-" and the last "+" column, called "-Unknown" and "+Unknown";
\* these two columns are there exactly when some channel of the grid is
\* not in the table; the tally has a column called "-Unknown" and one
\* called "+Unknown" exactly when some channel of the grid is not in the
\* table or the table itself gives a category the name "Unknown"; the
\* columns are "-" and then "+" of every reported category, two for each,
\* and the columns of every category of the table hold the contributions
\* of its own channels.
C13_UnknownCategory ==
    agg_pc = "done" =>
        /\ UnknownTallied(SingleNamed)
        /\ Len(df_categories.columns) = 2 * Len(cat_list)
              <=> Missing = {}
        /\ Len(df_categories.columns) = 2 * (Len(cat_list) + 1)
              <=> Missing # {}
        /\ HasColumn("-Unknown") <=> (Missing # {} \/ TableNamesUnknown)
        /\ HasColumn("+Unknown") <=> (Missing # {} \/ TableNamesUnknown)

\* The table puts GEN1, which reports 4, in a category it calls "Unknown"
\* and every channel of the grid is in the table: no channel is listed as
\* unknown, and the tally has the columns "-Unknown" and "+Unknown" of the
\* category of the table, with 4 under "+Unknown".
C13_Witness ==
    /\ agg_pc = "done"
    /\ agg_duids = AggDuids
    /\ Missing = {}
    /\ unknown_duids = <<>>
    /\ cat_list = <<"Battery", "Unknown">>
    /\ duid_catidx["GEN1"] = <<1, FALSE>>
    /\ agg_df[2][1] = R(4)
    /\ df_categories.columns = <<"-Battery", "-Unknown",
                                 "+Battery", "+Unknown">>
    /\ df_categories.rows[1][4] = R(4)

\* GEN1 is not in the table and reports 4: it is listed, and the tally has
\* 4 under "+Unknown" after the columns of the two categories of the table.
C13_WitnessAbsent ==
    /\ agg_pc = "done"
    /\ agg_duids = AggDuids
    /\ "GEN1" \notin DOMAIN duid_catidx
    /\ cat_list = <<"Battery", "Coal">>
    /\ agg_df[2][1] = R(4)
    /\ unknown_duids = <<"GEN1">>
    /\ df_categories.columns = <<"-Battery", "-Coal", "-Unknown",
                                 "+Battery", "+Coal", "+Unknown">>
    /\ Cell("+Unknown", 1) = R(4)

\* GEN1 is not in the table and reports 4, and the table calls the
\* category of a channel that is not in the grid "Unknown": the tally has
\* two columns called "+Unknown", the first one empty, the last one with
\* the 4 of GEN1.
C13_WitnessTwoUnknown ==
    /\ agg_pc = "done"
    /\ agg_duids = AggDuids
    /\ cat_list = <<"Battery", "Unknown">>
    /\ unknown_duids = <<"GEN1">>
    /\ agg_df[2][1] = R(4)
    /\ df_categories.columns = <<"-Battery", "-Unknown", "-Unknown",
                                 "+Battery", "+Unknown", "+Unknown">>
    /\ df_categories.rows[1][5] = Zero
    /\ df_categories.rows[1][6] = R(4)

\* Every channel is in the table: the tally has no "Unknown" columns and
\* the "+" columns follow the "-" columns of the categories of the table.
C13_WitnessAllKnown ==
    /\ agg_pc = "done"
    /\ agg_duids = AggDuids
    /\ unknown_duids = <<>>
    /\ cat_list = <<"Battery", "Coal", "Gas">>
    /\ agg_df[2][1] = R(4)
    /\ df_categories.columns = <<"-Battery", "-Coal", "-Gas",
                                 "+Battery", "+Coal", "+Gas">>
    /\ Cell("+Gas", 1) = R(4)

-----------------------------------------------------------------------------
(* Properties of load_nem_data_file.                                       *)

\* Some row "D" of some payload of the archive names the channel id and
\* carries the value v.
Reported(id, v) ==
    \E i \in DOMAIN ld_archive :
        /\ ld_archive[i].zip
        /\ \E j \in DOMAIN ld_archive[i].rows :
              LET row == ld_archive[i].rows[j]
              IN  /\ Len(row) > 0
                  /\ row[1] = "D"
                  /\ \E a, b \in DOMAIN row :
                        row[a] = id /\ IsFloat(row[b]) /\ FloatOf(row[b]) = v

\* C14: whatever the number of entries of the outer archive, the matrix
\* of a period that was loaded has INTERVALS_PER_FILE rows (288 for the
\* daily feed, 336 for the weekly one), as many cells in each row as it has
\* channels, and a cell is not zero only if a data row with a value that
\* is not zero set it.
C14_ArchiveMatrix ==
    ld_pc = "done" =>
        /\ Len(ld_df.rows) = INTERVALS_PER_FILE(ld_feed)
        /\ ld_df.periods = INTERVALS_PER_FILE(ld_feed)
        /\ INTERVALS_PER_FILE(ld_feed) =
               IF ld_feed = "DispatchSCADA" THEN 288 ELSE 336
        /\ \A r \in DOMAIN ld_df.rows :
              /\ Len(ld_df.rows[r]) = Len(ld_df.columns)
              /\ \A c \in DOMAIN ld_df.rows[r] :
                    ld_df.rows[r][c] # Zero =>
                        Reported(ld_df.columns[c], ld_df.rows[r][c])

\* An archive with more entries than the period has intervals was loaded,
\* and the last row of the matrix holds a value.
C14_Witness ==
    /\ ld_pc = "done"
    /\ Len(ld_archive) > INTERVALS_PER_FILE(ld_feed)
    /\ \E c \in DOMAIN ld_df.columns :
          ld_df.rows[INTERVALS_PER_FILE(ld_feed)][c] # Zero

\* An archive with two inner archives was loaded: one row of the matrix
\* holds a value, the first row holds none.
C14_WitnessFewer ==
    /\ ld_pc = "done"
    /\ Len(ld_archive) = 2
    /\ \E c \in DOMAIN ld_df.columns : ld_df.rows[2][c] # Zero
    /\ \A c \in DOMAIN ld_df.columns : ld_df.rows[1][c] = Zero

\* The time in the name of every payload is that of an interval of the
\* period.
StampsInPeriod ==
    \A i \in DOMAIN ld_archive :
        ld_archive[i].zip =>
            /\ ld_archive[i].stamp >= StampOf(ld_feed, 1)
            /\ ld_archive[i].stamp <=
                   StampOf(ld_feed, INTERVALS_PER_FILE(ld_feed))

\* C17 as it was stated: no anomaly of the rows or of the entries of an
\* archive ends the load; a load ends without a matrix only when the bytes
\* of the archive could not be had.
C17_AnomaliesNeverAbort ==
    (ld_pc = "aborted" /\ StampsInPeriod) =>
        ld_source \in {"http fails", "no such path"}

\* C20 as it was stated: the interval of the payload read last is the
\* integer nearest to (time of the payload - start of the period) /
\* length of an interval, also when the payload is earlier than the start.
C20_IntervalIsRounded ==
    (ld_pc \in {"done", "aborted"} /\ ld_load.read > 0) =>
        LET entry == ld_archive[ld_load.read]
            minutes == entry.stamp - BEGIN_MINUTE(ld_feed)
            length == MINUTES_PER_INTERVAL(ld_feed)
        IN  entry.zip =>
                Abs(2 * minutes - 2 * ld_load.interval * length) <= length

-----------------------------------------------------------------------------
(* Properties of the runs of load_nem_data over the PKL files.             *)

\* The periods whose raw archive the run before this one parsed and dumped.
WrittenBefore == {k \in MergeKeys : "write" \in prev_work[k]}

\* The tuples of twelve_month_list that load_nem_data has gone through.
LoadedTuples == {i \in 1..Len(twelve_month_list) : i <= tm_pos}

\* The matrices of period k in a list of loaded matrices.
MatricesOf(list, k) == {list[i] : i \in {j \in DOMAIN list : list[j].period = k}}

\* C15: a period whose raw archive was loaded by a run is parsed and dumped
\* to its PKL file in that run; in the next run the tuple selected for it
\* is the PKL file, its load is a read of that file with no fetch, no parse
\* and no dump, and the matrix read equals the matrix the parse produced.
C15_SecondRunReadsCache ==
    /\ \A k \in MergeKeys :
          "write" \in work[k] => "parse" \in work[k]
    /\ \A i \in LoadedTuples :
          LET o == twelve_month_list[i]
              k == Ymd(o[2])
          IN  /\ o[1] => {"parse", "write"} \subseteq work[k]
              /\ k \in WrittenBefore =>
                    /\ ~o[1]
                    /\ o[2].tier = "lp"
                    /\ work[k] = {"read"}
                    /\ MatricesOf(nem_MW_df_list, k) = MatricesOf(prev_df_list, k)

\* A second run has read the PKL file of a period that the first run
\* fetched from the server, parsed and dumped.
C15_Witness ==
    /\ runs = 2
    /\ run_pc = "complete"
    /\ \E k \in WrittenBefore :
          /\ "fetch" \in prev_work[k]
          /\ work[k] = {"read"}
          /\ MatricesOf(nem_MW_df_list, k) # {}

\* C16: over the runs on one data_dir, no period is fetched from the
\* server more than once.
C16_FetchedAtMostOnce == \A k \in DOMAIN fetches : fetches[k] <= 1

\* What does hold: a period that has a PKL file is neither fetched nor
\* parsed again, whatever the mirror and the server list.
C16_CachedIsNotFetched ==
    \A i \in LoadedTuples :
        LET k == Ymd(twelve_month_list[i][2])
        IN  k \in DOMAIN cache /\ "write" \notin work[k] => work[k] = {"read"}

-----------------------------------------------------------------------------
(* Properties of main.                                                     *)

\* build_df_five_minute raised: the run ended with no frame.
FillRaised ==
    pipe_pc = "aborted" /\ pipe_error = "IndexError" /\ grid = NoFrame

\* One of the steps that assemble the frames raised.
AssemblyRaised ==
    \/ FillRaised
    \/ pipe_pc = "aborted" /\ pipe_error \in {"KeyError", "StopIteration"}

\* C18: when the first daily file or the first weekly file is later than
\* the start of its window, the message is printed and the run still goes
\* through the assembly of the frames to the tally without an exception.
C18_InsufficientDataCompletes == warned => ~AssemblyRaised

\* The two ways such a run ends in the model: a daily file at or after
\* end_date is written beyond the last row of the frame, and 00:00 of the
\* window's first day is in no weekly matrix.
C18_DailyGapIndexError ==
    /\ warned
    /\ DateLT(ds_start, dateof(day_first))
    /\ FillRaised

C18_WeeklyGapKeyError ==
    /\ warned
    /\ DateLT(rt_start, dateof(week_first))
    /\ ~DateLT(ds_start, dateof(day_first))
    /\ Weekday(ds_end) # 3
    /\ pipe_error = "KeyError"

\* The frame has been built.
FrameBuilt == grid # NoFrame

\* The frame is as build_df_five_minute returned it.
FrameAsBuilt == pipe_pc = "repair"

\* The channels of the daily matrices that were loaded.
LoadedChannels ==
    UNION {{AxesOf(ds_axes, i)[j] : j \in DOMAIN AxesOf(ds_axes, i)} :
            i \in DOMAIN ds_twelve}

\* C19: the frame of build_df_five_minute has (end_date - start_date).days
\* * 288 rows, 105120 or 105408, stamped every 5 minutes from 00:05 of the
\* first day to 00:00 of end_date; its columns are the channels of the
\* daily matrices and the five regions, ascending, none twice; and
\* repair_missing_periods and add_rooftop_solar_data leave the rows and
\* the columns of the frame they work on as they were.
C19_FrameShape ==
    /\ FrameBuilt =>
          /\ grid.periods = DaysBetween(ds_start, ds_end) * 288
          /\ grid.periods \in {105120, 105408}
          /\ grid.start_minute = 5 /\ grid.freq = 5
          /\ grid.start_minute + (grid.periods - 1) * grid.freq
                = DaysBetween(ds_start, ds_end) * 1440
          /\ \A i \in 1..(Len(grid.columns) - 1) :
                IdLess(grid.columns[i], grid.columns[i + 1])
          /\ {grid.columns[i] : i \in DOMAIN grid.columns}
                = LoadedChannels \cup Regions
          /\ \A c \in grid.cells :
                /\ 0 <= c[1] /\ c[1] < grid.periods
                /\ 0 <= c[2] /\ c[2] < Len(grid.columns)
          /\ \A u \in grid.runs :
                /\ 0 <= u.start /\ u.start < u.end /\ u.end <= grid.periods
                /\ Len(u.from) = Len(grid.columns)
    /\ rep_pc = "done" =>
          /\ Len(df_MW) = Len(df_raw)
          /\ \A i \in DOMAIN df_MW : DOMAIN df_MW[i] = DOMAIN df_raw[i]
    /\ sol_pc = "done" =>
          /\ DOMAIN nwdf = Regions
          /\ \A r \in Regions : Len(nwdf[r]) = 6 * (Len(rtdf[r]) - 1)

\* The number of columns of the frame that carry the name x.
ColumnsNamed(x) ==
    Cardinality({i \in DOMAIN grid.columns : grid.columns[i] = x})

\* What does hold: the rows are as C19 states; the columns are in
\* ascending order and hold every channel of the daily matrices once and
\* every region once, so that a name that is both a channel and a region
\* is carried by two columns that follow each other, and the columns are
\* free of duplicates exactly when no channel has the name of a region;
\* repair_missing_periods and add_rooftop_solar_data leave the rows and
\* the columns as they were.
C19_FrameShapeWithSharedNames ==
    /\ FrameBuilt =>
          /\ grid.periods = DaysBetween(ds_start, ds_end) * 288
          /\ grid.periods \in {105120, 105408}
          /\ grid.start_minute = 5 /\ grid.freq = 5
          /\ grid.start_minute + (grid.periods - 1) * grid.freq
                = DaysBetween(ds_start, ds_end) * 1440
          /\ \A i \in 1..(Len(grid.columns) - 1) :
                ~IdLess(grid.columns[i + 1], grid.columns[i])
          /\ \A x \in LoadedChannels \cup Regions :
                ColumnsNamed(x) = (IF x \in LoadedChannels THEN 1 ELSE 0)
                                    + (IF x \in Regions THEN 1 ELSE 0)
          /\ Len(grid.columns)
                = Cardinality(LoadedChannels) + Cardinality(Regions)
          /\ (\A i \in 1..(Len(grid.columns) - 1) :
                   grid.columns[i] # grid.columns[i + 1])
                <=> LoadedChannels \cap Regions = {}
          /\ \A c \in grid.cells :
                /\ 0 <= c[1] /\ c[1] < grid.periods
                /\ 0 <= c[2] /\ c[2] < Len(grid.columns)
          /\ \A u \in grid.runs :
                /\ 0 <= u.start /\ u.start < u.end /\ u.end <= grid.periods
                /\ Len(u.from) = Len(grid.columns)
    /\ rep_pc = "done" =>
          /\ Len(df_MW) = Len(df_raw)
          /\ \A i \in DOMAIN df_MW : DOMAIN df_MW[i] = DOMAIN df_raw[i]
    /\ sol_pc = "done" =>
          /\ DOMAIN nwdf = Regions
          /\ \A r \in Regions : Len(nwdf[r]) = 6 * (Len(rtdf[r]) - 1)

\* The daily matrices have a channel called NSW1: the frame was built with
\* two columns of that name.
C19_SharedNameTwice ==
    /\ FrameAsBuilt
    /\ "NSW1" \in LoadedChannels
    /\ grid.columns = <<"GEN1", "NSW1", "NSW1", "QLD1", "SA1", "TAS1", "VIC1">>

\* Such a run went through: the rooftop samples of the region NSW1 were
\* written to the first of the two columns, where the values of the
\* channel NSW1 are, no cell was written to the second, and the tally,
\* whose table has NSW1 in it, holds nothing of either column: In, Out
\* and the ratio of both are 0.
C19_SharedNameLost ==
    /\ pipe_pc = "complete"
    /\ ds_power /\ rt_power
    /\ grid.columns = <<"GEN1", "NSW1", "NSW1", "QLD1", "SA1", "TAS1", "VIC1">>
    /\ \E c \in grid.cells : c[2] = 1 /\ c[3] = R(10)
    /\ \A c \in grid.cells : c[2] # 2
    /\ "NSW1" \in DOMAIN duid_catidx
    /\ df_in_out[2] = <<Zero, Zero, Zero>>
    /\ df_in_out[3] = <<Zero, Zero, Zero>>

\* A frame of 366 days was built from matrices with different channel
\* lists, repaired and given the rooftop cells, and the run went through.
C19_Witness ==
    /\ pipe_pc = "complete"
    /\ grid.runs # {} /\ grid.cells # {}
    /\ grid.periods = 105408
    /\ Len(ds_axes) = 2
    /\ Len(grid.columns) = 8

\* A repair that assigned to rows, and an interpolation that wrote cells.
C19_WitnessRepaired == rep_pc = "done" /\ touched # {} /\ df_MW # df_raw

C19_WitnessSolar ==
    sol_pc = "done" /\ \E r \in Regions : \E i \in DOMAIN nwdf[r] : nwdf[r][i] # R(0)

-----------------------------------------------------------------------------
(* Properties of parse_csvfile across the payloads of one archive.        *)

\* The positions of the identifier and value columns that the first row
\* "I" of a payload declares; <<None, None>> when it has no such row.
OwnColumns(feed, rows) ==
    LET heads == {j \in DOMAIN rows : Len(rows[j]) > 0 /\ rows[j][1] = "I"}
    IN  IF heads = {} THEN <<None, None>>
        ELSE LET j == CHOOSE h \in heads : \A g \in heads : h <= g
             IN  <<ListIndex(rows[j], HeaderNames(feed)[2]),
                   ListIndex(rows[j], HeaderNames(feed)[3])>>

\* The positions in load.duid_col / load.regionid_col and load.MW_col /
\* load.power_col once the entries 1..i of the archive have been read.
ColumnsInUse(i) ==
    LET load == ReadInner(ld_feed, NewLoad(ld_feed), ld_archive, 1, i)
    IN  <<load.id_col, load.MW_col>>

\* The entries of the archive that were read to their end.
ReadThrough ==
    {i \in DOMAIN ld_archive :
        /\ ld_archive[i].zip
        /\ IF ld_pc = "done" THEN TRUE ELSE i < ld_load.read}

\* C21: the data rows of every payload that was read are read at the
\* identifier and value positions that the header row of that same payload
\* declares, also when an earlier payload of the archive declares others.
C21_HeaderPerPayload ==
    ld_pc \in {"done", "aborted"} =>
        \A i \in ReadThrough :
            OwnColumns(ld_feed, ld_archive[i].rows) # <<None, None>> =>
                ColumnsInUse(i) = OwnColumns(ld_feed, ld_archive[i].rows)

\* What the code does: the positions are those of the first header row of
\* the whole outer archive.
C21_FirstHeaderOfArchive ==
    ld_pc = "done" =>
        \A i \in ReadThrough :
            \A j \in ReadThrough :
                (/\ j <= i
                 /\ OwnColumns(ld_feed, ld_archive[j].rows) # <<None, None>>
                 /\ \A k \in ReadThrough : k < j =>
                       OwnColumns(ld_feed, ld_archive[k].rows) = <<None, None>>)
                => ColumnsInUse(i) = OwnColumns(ld_feed, ld_archive[j].rows)

\* A load went through in which the second payload declares its columns in
\* another order than the first, and a value became a channel of the matrix.
C21_ValueTakenForChannel ==
    /\ ld_pc = "done"
    /\ Len(ld_archive) = 2
    /\ ld_archive[1].zip /\ ld_archive[2].zip
    /\ OwnColumns(ld_feed, ld_archive[1].rows)
          # OwnColumns(ld_feed, ld_archive[2].rows)
    /\ \E c \in DOMAIN ld_df.columns : ld_df.columns[c] = "50"

-----------------------------------------------------------------------------
(* Properties of build_twelve_month_list in a run of main.                 *)

\* The dates of the files of a twelve_month_list, in its order.
FileDates(list) == [i \in DOMAIN list |-> Ymd(list[i][2])]

\* Every file of the list is dated in [start, end).
InWindow(list, start, end) ==
    \A i \in DOMAIN list :
        /\ FileDates(list)[i] >= Yyyymmdd(start)
        /\ FileDates(list)[i] < Yyyymmdd(end)

\* The list is in ascending order of date.
Ascending(list) ==
    \A i \in 1..(Len(list) - 1) : FileDates(list)[i] < FileDates(list)[i + 1]

\* C22: the twelve_month_list of each feed holds only files dated in
\* [start_date, end_date) of the feed, in ascending order, also when the
\* first file of the feed is later than start_date.
C22_ListInsideWindow ==
    pipe_pc \notin {"idle", "load"} =>
        /\ InWindow(ds_twelve, ds_start, ds_end)
        /\ InWindow(rt_twelve, rt_start, rt_end)
        /\ Ascending(ds_twelve) /\ Ascending(rt_twelve)

\* What does hold: ascending lists with no file before start_date and at
\* most number_of_files files.
C22_FromStartByCount ==
    pipe_pc \notin {"idle", "load"} =>
        /\ Ascending(ds_twelve) /\ Ascending(rt_twelve)
        /\ \A i \in DOMAIN ds_twelve : FileDates(ds_twelve)[i] >= Yyyymmdd(ds_start)
        /\ \A i \in DOMAIN rt_twelve : FileDates(rt_twelve)[i] >= Yyyymmdd(rt_start)
        /\ Len(ds_twelve) <= DaysBetween(ds_start, ds_end)
        /\ 7 * Len(rt_twelve) <= DaysBetween(rt_start, rt_end)

\* The daily list of a feed that starts late runs on past end_date.
C22_PastEnd ==
    /\ pipe_pc = "assemble"
    /\ DateLT(ds_start, dateof(day_first))
    /\ \E i \in DOMAIN ds_twelve : FileDates(ds_twelve)[i] >= Yyyymmdd(ds_end)

-----------------------------------------------------------------------------
(* Properties of the fill of build_df_five_minute.                         *)

\* The cells that are not 0 of the daily matrices that were loaded, as
\* <<days from start_date to the matrix, interval, channel, power>>.
LoadedCells ==
    UNION {{<<DaysBetween(ds_start, dateof(Ymd(ds_twelve[n][2]))),
              cell[1], cell[2], cell[3]>> :
               cell \in DailyCells(AxesOf(ds_axes, n), ds_power)} :
           n \in DOMAIN ds_twelve}

\* The frame holds the loaded cells at row days * 288 + interval and at
\* the column of their channel, and nothing else.
FrameHoldsLoadedCells ==
    /\ grid.runs = {}
    /\ \A g \in grid.cells :
          g[1] >= 0 /\ g[1] < grid.periods /\ g[2] # None
    /\ {<<g[1], grid.columns[g[2] + 1], g[3]>> : g \in grid.cells}
          = {<<c[1] * 288 + c[2], c[3], c[4]>> : c \in LoadedCells}

\* C23: every value that is not 0 of every loaded daily matrix is written
\* to the frame at row (days from start_date) * 288 + interval and at the
\* column named by its channel; every such write is inside the rows of
\* the frame; and every other cell of the frame is 0.
C23_FillInsideFrame ==
    pipe_pc \notin {"idle", "load", "assemble"} =>
        /\ ~FillRaised
        /\ FrameAsBuilt => FrameHoldsLoadedCells

\* What does hold: a frame that was built holds the loaded cells when
\* build_df_five_minute returns it.
C23_FillWhenBuilt == FrameAsBuilt => FrameHoldsLoadedCells

\* A frame of 366 days was filled up to its last row.
C23_FilledToLastRow ==
    /\ FrameAsBuilt
    /\ \E g \in grid.cells : g[1] = grid.periods - 1 /\ grid.periods = 105408
    /\ \E g \in grid.cells : g[1] = 0

-----------------------------------------------------------------------------
(* Properties of the order of the steps of load_nem_data.                  *)

\* The places of the log at which the run did `what` for some period.
EventsOf(what) == {j \in DOMAIN events : events[j][1] = what}

\* The period of the tuple the loop of load_nem_data is at.
PeriodAtLoop == Ymd(twelve_month_list[tm_pos + 1][2])

\* C24: in a run of load_nem_data the PKL file of a period loaded from a
\* ZIP file is dumped right after the parse of that period's archive and
\* before anything is done for the next period; nothing is dumped for a
\* period read from its PKL file; and when the run ends in an exception
\* while a period is loaded, that period has no PKL file while the periods
\* loaded before it in the run have theirs.
C24_DumpFollowsParse ==
    /\ \A j \in EventsOf("write") :
          /\ j > 1
          /\ events[j - 1] = <<"parse", events[j][2]>>
          /\ events[j][2] \in DOMAIN cache
          /\ \A i \in DOMAIN events :
                i > j => events[i][2] > events[j][2]
    /\ \A j \in EventsOf("parse") :
          j < Len(events) /\ events[j + 1] = <<"write", events[j][2]>>
    /\ \A j \in EventsOf("read") :
          \A i \in EventsOf("write") : events[i][2] # events[j][2]
    /\ (run_pc = "aborted" /\ tm_pos < Len(twelve_month_list)) =>
          /\ PeriodAtLoop \notin DOMAIN cache
          /\ \A i \in EventsOf("write") : events[i][2] # PeriodAtLoop
          /\ \A i \in LoadedTuples :
                Ymd(twelve_month_list[i][2]) \in DOMAIN cache

\* What does hold: a dump follows the parse of its period at once and
\* comes before anything is done for the next period, nothing is dumped
\* for a period read from its PKL file, and a period whose load was
\* completed in the run has a PKL file that was dumped whole.  When the
\* run ends in an exception of the download or of the parse, the period at
\* the loop has no PKL file; when it ends in an exception of the dump, the
\* period at the loop has a truncated one.
C24_DumpFollowsParseUnlessItRaises ==
    /\ \A j \in EventsOf("write") \cup EventsOf("dump raised") :
          /\ j > 1
          /\ events[j - 1] = <<"parse", events[j][2]>>
          /\ events[j][2] \in DOMAIN cache
          /\ \A i \in DOMAIN events :
                i > j => events[i][2] > events[j][2]
    /\ \A j \in EventsOf("parse") :
          /\ j < Len(events)
          /\ events[j + 1] \in {<<"write", events[j][2]>>,
                                <<"dump raised", events[j][2]>>}
    /\ \A j \in EventsOf("read") :
          \A i \in EventsOf("write") : events[i][2] # events[j][2]
    /\ \A i \in LoadedTuples :
          LET k == Ymd(twelve_month_list[i][2])
          IN  k \in DOMAIN cache /\ cache[k] # TruncatedPkl
    /\ (run_pc = "aborted" /\ tm_pos < Len(twelve_month_list)) =>
          /\ \A i \in EventsOf("write") : events[i][2] # PeriodAtLoop
          /\ (EventsOf("fetch raised") \cup EventsOf("parse raised")) # {}
                => PeriodAtLoop \notin DOMAIN cache
          /\ EventsOf("dump raised") # {}
                => /\ events[Len(events)] = <<"dump raised", PeriodAtLoop>>
                   /\ cache[PeriodAtLoop] = TruncatedPkl

\* A run dumped the PKL file of one period, read another period from its
\* PKL file, and ended in an exception of the parse of a third.
C24_Witness ==
    /\ run_pc = "aborted"
    /\ EventsOf("write") # {}
    /\ EventsOf("read") # {}
    /\ EventsOf("parse raised") # {}

\* A run ended in an exception of the dump of a period after it had dumped
\* the PKL file of an earlier one: the period at the loop has a truncated
\* PKL file.
C24_TruncatedLeft ==
    /\ run_pc = "aborted"
    /\ EventsOf("write") # {}
    /\ EventsOf("dump raised") # {}
    /\ tm_pos < Len(twelve_month_list)
    /\ PeriodAtLoop \in DOMAIN cache

\* The run after it took the truncated PKL file for that period, before
\* the archives of the mirror and of the server, and ended in the
\* exception of pickle_load.
C24_TruncatedRead ==
    /\ runs = 2
    /\ run_pc = "aborted"
    /\ EventsOf("read raised") # {}
    /\ "dump raised" \in prev_work[PeriodAtLoop]

-----------------------------------------------------------------------------
(* Properties of build_df_thirty_minute in a run of main.                  *)

\* build_df_thirty_minute has been called.
ThirtyCalled ==
    pipe_pc \in {"solar", "tally", "complete", "aborted"} /\ ~FillRaised

\* The thirty minute frame has a sample for 00:00 of the window's first
\* day and one for every sixth row of the five minute frame after it.
SamplePerBlock == thirty.rows = grid.periods \div 6 + 1

\* C25: for every window for which both feeds have their files,
\* build_df_thirty_minute returns rows / 6 + 1 samples, from 00:00 of the
\* window's first day to 00:00 of end_date, also when end_date is a
\* Thursday and the last weekly matrix loaded ends 30 minutes before it.
C25_EndSample == (~warned /\ ThirtyCalled) => SamplePerBlock

\* What does hold: the same for the windows whose end_date is no Thursday.
C25_EndSampleOffThursday ==
    (~warned /\ ThirtyCalled /\ Weekday(ds_end) # 3) => SamplePerBlock

\* A window that ends on a Thursday: 00:00 of end_date is in no matrix
\* that was loaded.
C25_ThursdayKeyError ==
    /\ pipe_error = "KeyError"
    /\ ~warned
    /\ Weekday(ds_end) = 3
    /\ GetLoc(rt_twelve, ds_start) # None
    /\ GetLoc(rt_twelve, ds_end) = None

-----------------------------------------------------------------------------
(* The trim of the remote listing.                                         *)

SortedListing == ListSort(url_list)

\* The lengths of the prefixes of the sorted listing whose last entry is as
\* long as the first entry.
ValidPrefixes ==
    {k \in 1..Len(SortedListing) :
        Len(SortedListing[k]) = Len(SortedListing[1])}

LongestValidPrefix ==
    LET k == CHOOSE k \in ValidPrefixes : \A m \in ValidPrefixes : m <= k
    IN  SubSeq(SortedListing, 1, k)

\* Every entry of another length sorts after every entry of the valid length.
VariantsSortLast ==
    \A i, j \in 1..Len(SortedListing) :
        (/\ Len(SortedListing[i]) # Len(SortedListing[1])
         /\ Len(SortedListing[j]) = Len(SortedListing[1])) => j < i

NoVariantLeft ==
    \A i \in 1..Len(bf_rzlist) : Len(bf_rzlist[i]) = Len(SortedListing[1])

TrimSafe ==
    url_list # <<>> =>
        /\ bf_pc # "aborted"
        /\ bf_pc \in {"trim", "done"} => bf_rzlist # <<>>
        /\ bf_pc = "done" =>
            /\ bf_rzlist = LongestValidPrefix
            /\ VariantsSortLast => NoVariantLeft

\* C26: on a listing that is not empty the trim loop ends, the list is never
\* empty in it, the list it leaves is the longest prefix of the sorted
\* listing whose last entry is as long as the first entry, and when every
\* entry of another length sorts after every entry of that length none of
\* them is left.
C26_TrimToValidPrefix ==
    /\ []TrimSafe
    /\ (bf_pc = "list" /\ url_list # <<>>) ~> (bf_pc = "done")

\* The loop has popped entries of another length from a listing in which
\* they all sort last, and has ended.
C26_Witness ==
    /\ bf_pc = "done"
    /\ Len(bf_rzlist) >= 2
    /\ Len(bf_rzlist) < Len(url_list)
    /\ VariantsSortLast

\* An entry of another length that sorts before a valid entry stays.
C26_VariantStays ==
    /\ bf_pc = "done"
    /\ ~NoVariantLeft

-----------------------------------------------------------------------------
(* The totals of the rows after repair_missing_periods.                    *)

\* The total of a row is below 2.0 GW.
RowBelow(row) == BelowThreshold(RowSumGW(row))

\* The rows repair reads for the gap run [s, e): iloc[prior] and, where
\* the run is bounded on both sides, iloc[post]; iloc[-1] is the last row.
SourceRows(s, e) ==
    IF e < NumRows
    THEN IF s > 0 THEN {s - 1, e} ELSE {e}
    ELSE {(s - 1) % NumRows}

SourcesValid ==
    \A s \in 0..(NumRows - 1), e \in 1..NumRows :
        GapRun(s, e) => \A i \in SourceRows(s, e) : ~GapRow(i)

NoRowBelowThreshold ==
    \A i \in 1..NumRows : ~RowBelow(df_MW[i])

\* C27, as claimed: after the repair no row of any grid, the grid in which
\* every row is below the threshold included, has a total below the
\* threshold, and every row the repair read as a source had a total at or
\* above the threshold before it.
C27_TotalsRepaired ==
    rep_pc = "done" => (NoRowBelowThreshold /\ SourcesValid)

\* What the code does: the totals are repaired when some row of the grid
\* was at or above the threshold.
C27_TotalsRepairedWhenSomeRowValid ==
    (rep_pc = "done" /\ GapRows # 0..(NumRows - 1)) =>
        (NoRowBelowThreshold /\ SourcesValid)

\* Every row was below the threshold and still is after the repair.
C27_AllBelowStays ==
    /\ rep_pc = "done"
    /\ NumRows >= 2
    /\ GapRows = 0..(NumRows - 1)
    /\ \A i \in 1..NumRows : RowBelow(df_MW[i])

-----------------------------------------------------------------------------
(* Conservation in build_cat_and_in_out_dfs.                               *)

\* The number of reported categories: the tally has a "-" and a "+" column
\* for each.
\* The sum over the columns of S of the sign-adjusted value at row r.
RowContribution(S, r) ==
    SumSeq([k \in Channels |-> IF k \in S THEN Contribution(k, r) ELSE Zero])

\* At every row of the grid the cells of the tally, "-" and "+" columns
\* together, add up to the sum over the columns of S of the sign-adjusted
\* value at that row; no "-" cell and no In value is above zero, no "+"
\* cell and no Out value is below zero; In and Out of a column of S are
\* its negative and its positive sum divided by the row count of the grid.
ConservationOver(S) ==
    /\ Len(df_categories.rows) = AggRowCount
    /\ \A r \in AggRows :
          /\ SumSeq(df_categories.rows[r]) = RowContribution(S, r)
          /\ Len(df_categories.rows[r]) = 2 * NumReported
          /\ \A c \in 1..NumReported :
                /\ ~RLess(Zero, df_categories.rows[r][c])
                /\ ~RLess(df_categories.rows[r][NumReported + c], Zero)
    /\ \A k \in Channels :
          /\ ~RLess(Zero, df_in_out[k][1])
          /\ ~RLess(df_in_out[k][2], Zero)
    /\ \A k \in S :
          /\ df_in_out[k][1] = RDivInt(NegTotal(k), AggRowCount)
          /\ df_in_out[k][2] = RDivInt(PosTotal(k), AggRowCount)

-----------------------------------------------------------------------------
(* The rows of the matrix that the payloads of an archive are stored in.   *)

\* The interval a payload belongs to: the integer nearest to (time in its
\* name - start of the period) / length of an interval.
OwnInterval(feed, stamp) ==
    (2 * (stamp - BEGIN_MINUTE(feed)) + MINUTES_PER_INTERVAL(feed))
        \div (2 * MINUTES_PER_INTERVAL(feed))

\* Row r (from 0) of the loaded matrix holds a value.
RowHoldsValue(r) == \E c \in DOMAIN ld_df.rows[r + 1] : ld_df.rows[r + 1][c] # Zero

\* Some payload of the archive belongs to interval r.
PayloadOf(r) ==
    \E i \in DOMAIN ld_archive :
        ld_archive[i].zip /\ OwnInterval(ld_feed, ld_archive[i].stamp) = r

RowsOfOwnInterval ==
    \A r \in 0..(INTERVALS_PER_FILE(ld_feed) - 1) :
        RowHoldsValue(r) => PayloadOf(r)

\* C29, as claimed: the values of a payload are stored only in the row of
\* its own interval, a row of the matrix; a payload named for a time
\* before the start or at or after the end of the period leaves the rows
\* of the intervals of the period alone.
C29_StoredInOwnRow == ld_pc = "done" => RowsOfOwnInterval

\* What the code does: the rows hold the values of their own payloads when
\* every payload is named for a time of the period.
C29_StoredInOwnRowInPeriod ==
    (ld_pc = "done" /\ StampsInPeriod) => RowsOfOwnInterval

\* The only payload of the archive is named for a time two intervals
\* before the period: its values are in the last row of the matrix.
C29_EarlyPayloadInLastRow ==
    /\ ld_pc = "done"
    /\ Len(ld_archive) = 1
    /\ ld_archive[1].zip
    /\ ld_archive[1].stamp = StampOf(ld_feed, 0 - 1)
    /\ RowHoldsValue(INTERVALS_PER_FILE(ld_feed) - 1)

\* The only payload of the archive is named for the interval before the
\* period: its values are in row 0.
C29_EarlyPayloadInFirstRow ==
    /\ ld_pc = "done"
    /\ Len(ld_archive) = 1
    /\ ld_archive[1].zip
    /\ ld_archive[1].stamp = StampOf(ld_feed, 0)
    /\ RowHoldsValue(0)

\* A payload named for a time after the period ends the load.
C29_LatePayloadRaises ==
    /\ ld_pc = "aborted"
    /\ Len(ld_archive) = 1
    /\ ld_archive[1].zip
    /\ ld_archive[1].stamp = StampOf(ld_feed, INTERVALS_PER_FILE(ld_feed) + 1)
    /\ ld_load.error = "IndexError"

=============================================================================
